---------------------------- MODULE Spec2Model ----------------------------
(***************************************************************************)
(* Repository health checker: the scoring engine (scoring.py), the         *)
(* analyzers that produce the reports it scores (analyzer.py), the command *)
(* line (cli.py, utils.py) and main (main.py), which runs one after the    *)
(* other.                                                                  *)
(*                                                                         *)
(* Python dicts are functions with a string domain; an absent key is a key *)
(* outside the DOMAIN and dict.get(k, default) is Get.  A datetime is a    *)
(* day number, None is NoDate.  A warning's message is the set of marker   *)
(* phrases it contains, so that "'Long function' in message" is set        *)
(* membership.                                                             *)
(***************************************************************************)
EXTENDS Integers, Sequences, FiniteSets, TLC

VARIABLES
    repo,               \* the repository on disk and what git reports of it
    analysis_results,   \* main.py:85, the dict analyze_repository returns
    options,            \* main.py:47, the options dict
    now,                \* the wall clock read by datetime.now(), in days
    pc,                 \* position in main
    health_score,       \* main.py:88
    score_breakdown,    \* main.py:88
    score_category,     \* main.py:89
    runs,               \* results of the completed runs of main, oldest first
    args,               \* cli.py:110, the parsed command line
    stderr,             \* what the process has written to sys.stderr
    git,                \* what the three git calls of analyze_git_history do
    git_history,        \* analyzer.py:195, the dict analyze_git_history returns
    commit_lines,       \* analyzer.py:59, the argument commits
    unique_warnings,    \* analyzer.py:105, what analyze_commit_quality returns
    import_graph,       \* analyzer.py:511, modules and their imports, in order
    cycle_warnings,     \* analyzer.py:568, what check_circular_dependencies returns
    files,              \* the python files analyze_code_coverage finds
    coverage_results,   \* analyzer.py:361, the dict analyze_code_coverage returns
    stdout,             \* what the process has written to sys.stdout
    opened,             \* main.py:96, the files opened for writing
    tree,               \* analyzer.py:702, what repo.rglob('*') yields
    primary_language,   \* analyzer.py:711, what detect_primary_language returns
    sample,             \* analyzer.py:571, the argument s
    entropy             \* analyzer.py:583, what calculate_entropy returns

\* The state of main.
mainVars == <<repo, analysis_results, options, now, health_score,
              score_breakdown, score_category, runs>>

\* The state of the command line and of the analyzers applied on their own.
unitVars == <<args, stderr, git, git_history, commit_lines,
              unique_warnings, import_graph, cycle_warnings, files,
              coverage_results>>

\* What main puts out.
outputVars == <<stdout, opened>>

\* The state of the helpers of the analyzers applied on their own.
toolVars == <<tree, primary_language, sample, entropy>>

vars == <<mainVars, pc, unitVars, outputVars, toolVars>>

-----------------------------------------------------------------------------
(* Bounds of the model *)

MaxCommits == 2      \* total_commits ranges over 0..MaxCommits
MaxDate == 2         \* commit dates range over days 0..MaxDate
MaxTicks == 1        \* the clock ranges over RecentDays..RecentDays+MaxTicks
MaxWarnings == 10    \* a category carries 0..MaxWarnings warnings
MaxScore == 100      \* get_score_category is applied to 0..MaxScore
MaxRuns == 2         \* runs of main on the same repository

(* Program constants *)

RecentDays == 180    \* timedelta(days=180)
NoDate == -1         \* None as most_recent_commit_date

-----------------------------------------------------------------------------
(* Python helpers *)

Get(d, k, default) == IF k \in DOMAIN d THEN d[k] ELSE default

Min(a, b) == IF a <= b THEN a ELSE b

Max(a, b) == IF a >= b THEN a ELSE b

EmptyDict == <<>>

\* sum(1 for w in warnings if marker in w.get('message', ''))
CountWith(warnings, marker) ==
    Cardinality({i \in DOMAIN warnings : marker \in Get(warnings[i], "message", {})})

-----------------------------------------------------------------------------
(* scoring.py: calculate_health_score *)

\* options.get(key, False)
Enabled(opts, key) == Get(opts, key, FALSE)

\* Mutant: the tests directory worth 20 (the "70 points total" of the comment).
StructureScoreSeventy(structure) ==
      (IF Get(structure, "has_readme", FALSE) THEN 20 ELSE 0)
    + (IF Get(structure, "has_license", FALSE) THEN 15 ELSE 0)
    + (IF Get(structure, "has_tests", FALSE) THEN 20 ELSE 0)
    + (IF Get(structure, "has_gitignore", FALSE) THEN 15 ELSE 0)

\* File and directory checks
StructureScore(structure) ==
      (IF Get(structure, "has_readme", FALSE) THEN 20 ELSE 0)
    + (IF Get(structure, "has_license", FALSE) THEN 15 ELSE 0)
    + (IF Get(structure, "has_tests", FALSE) THEN 25 ELSE 0)
    + (IF Get(structure, "has_gitignore", FALSE) THEN 15 ELSE 0)

\* most_recent_date >= datetime.now() - timedelta(days=180)
IsRecent(most_recent_date, clock) == most_recent_date >= clock - RecentDays

\* Git history checks
HistoryScore(history, clock) ==
    LET total_commits == Get(history, "total_commits", 0)
        most_recent_date == Get(history, "most_recent_commit_date", NoDate)
    IN    (IF total_commits > 0 THEN 15 ELSE 0)
        + (IF most_recent_date # NoDate /\ IsRecent(most_recent_date, clock)
           THEN 10 ELSE 0)

\* Mutant: the commit-quality penalty without its cap.
CommitPenaltyUncapped(history) ==
    Len(Get(history, "commits_quality_warnings", <<>>)) * 10

CommitPenalty(history) ==
    Min(Len(Get(history, "commits_quality_warnings", <<>>)) * 10, 30)

\* Mutant: the security penalty capped at the commit-quality cap.
SecurityPenaltyCap30(security) ==
    Min(Len(Get(security, "secrets_warnings", <<>>)) * 20, 30)

SecurityPenalty(security) ==
    Min(Len(Get(security, "secrets_warnings", <<>>)) * 20, 50)

LanguagePenalty(language) ==
    Min(Len(Get(language, "language_warnings", <<>>)) * 10, 30)

\* Mutant: the code-quality penalty capped on the sum, not per subtype.
CodeQualityPenaltySumCapped(code_quality) ==
    LET code_quality_warnings == Get(code_quality, "code_quality_warnings", <<>>)
        long_func_count == CountWith(code_quality_warnings, "Long function")
        circ_dep_count == CountWith(code_quality_warnings, "Circular dependency")
        entropy_count == CountWith(code_quality_warnings, "High-entropy")
    IN  Min(long_func_count * 5 + circ_dep_count * 15 + entropy_count * 20, 90)

CodeQualityPenalty(code_quality) ==
    LET code_quality_warnings == Get(code_quality, "code_quality_warnings", <<>>)
        long_func_count == CountWith(code_quality_warnings, "Long function")
        circ_dep_count == CountWith(code_quality_warnings, "Circular dependency")
        entropy_count == CountWith(code_quality_warnings, "High-entropy")
        long_penalty == Min(long_func_count * 5, 20)
        circ_penalty == Min(circ_dep_count * 15, 30)
        entropy_penalty == Min(entropy_count * 20, 40)
    IN  long_penalty + circ_penalty + entropy_penalty

\* Mutant: the cap subtracted as soon as there is a warning.
CoveragePenaltyCapOnly(coverage) ==
    IF Len(Get(coverage, "coverage_warnings", <<>>)) = 0 THEN 0 ELSE 45

CoveragePenalty(coverage) ==
    Min(Len(Get(coverage, "coverage_warnings", <<>>)) * 15, 45)

\* Mutant: the final score without the floor at 0.
FinalScoreUnfloored(score) == score

\* final_score = max(score, 0)
FinalScore(score) == Max(score, 0)

\* Mutant: the penalty applied whether or not the check was requested.
AppliedAlways(opts, key, penalty) == penalty

\* The penalty of a category, applied only when its check was requested.
Applied(opts, key, penalty) == IF Enabled(opts, key) THEN penalty ELSE 0

\* Mutant: the breakdown entry recorded as a positive amount.
PenaltyEntryUnsigned(penalty) == penalty

\* breakdown[category] = -penalty
PenaltyEntry(penalty) == -penalty

\* The penalties subtracted from score, by breakdown key.
Penalties(results, opts) ==
    LET history == Get(results, "history", EmptyDict)
        security == Get(results, "security", EmptyDict)
        language == Get(results, "language", EmptyDict)
    IN  [commit_quality |->
             Applied(opts, "check_commits", CommitPenalty(history)),
         security |->
             Applied(opts, "check_security", SecurityPenalty(security)),
         language_specific |->
             Applied(opts, "check_language", LanguagePenalty(language)),
         code_quality |->
             Applied(opts, "check_code_quality",
                     CodeQualityPenalty(Get(results, "code_quality", EmptyDict))),
         coverage |->
             Applied(opts, "check_coverage",
                     CoveragePenalty(Get(results, "coverage", EmptyDict)))]

\* The local variable score when the last optional check is done.
RunningScore(results, opts, clock) ==
    LET p == Penalties(results, opts)
    IN  StructureScore(Get(results, "structure", EmptyDict))
        + HistoryScore(Get(results, "history", EmptyDict), clock)
        - p.commit_quality - p.security - p.language_specific
        - p.code_quality - p.coverage

\* The breakdown dict as it stands at the return statement.
Breakdown(results, opts, clock) ==
    LET s == StructureScore(Get(results, "structure", EmptyDict))
        h == HistoryScore(Get(results, "history", EmptyDict), clock)
        p == Penalties(results, opts)
    IN  [base_score |-> s + h,
         structure |-> s,
         history |-> h,
         commit_quality |-> PenaltyEntry(p.commit_quality),
         security |-> PenaltyEntry(p.security),
         language_specific |-> PenaltyEntry(p.language_specific),
         code_quality |-> PenaltyEntry(p.code_quality),
         coverage |-> PenaltyEntry(p.coverage),
         final_score |-> FinalScore(RunningScore(results, opts, clock))]

\* The tuple (final_score, breakdown) the function returns.
CalculateHealthScore(results, opts, clock) ==
    <<FinalScore(RunningScore(results, opts, clock)),
      Breakdown(results, opts, clock)>>

\* Mutant: the thresholds taken as strict.
GetScoreCategoryStrict(score) ==
    IF score > 90 THEN "Excellent"
    ELSE IF score > 70 THEN "Good"
    ELSE IF score > 50 THEN "Fair"
    ELSE IF score > 30 THEN "Poor"
    ELSE "Critical"

(* scoring.py: get_score_category *)
GetScoreCategory(score) ==
    IF score >= 90 THEN "Excellent"
    ELSE IF score >= 70 THEN "Good"
    ELSE IF score >= 50 THEN "Fair"
    ELSE IF score >= 30 THEN "Poor"
    ELSE "Critical"

-----------------------------------------------------------------------------
(* The analysis results and options calculate_health_score is applied to *)

Warn(marker) == [message |-> {marker}, tip |-> "tip"]

WarningList(marker, n) == [i \in 1..n |-> Warn(marker)]

\* The warning categories the score reads: five lists, code quality by subtype.
Categories ==
    {"commit", "secret", "language", "long", "circular", "entropy", "coverage"}

\* Category f carries n warnings, every other category b.
Profile(f, n, b) == [c \in Categories |-> IF c = f THEN n ELSE b]

SweepProfiles ==
    {Profile(f, n, b) :
        f \in Categories, n \in 0..MaxWarnings, b \in {0, 1, MaxWarnings}}

UniformProfiles == {Profile("commit", b, b) : b \in {0, 1, MaxWarnings}}

Structures ==
    [has_readme : BOOLEAN, has_license : BOOLEAN,
     has_tests : BOOLEAN, has_gitignore : BOOLEAN]

CornerStructures ==
    {s \in Structures : s.has_license = s.has_readme /\ s.has_tests = s.has_readme
                        /\ s.has_gitignore = s.has_readme}

Dates == {NoDate} \cup (0..MaxDate)

Clocks == RecentDays..(RecentDays + MaxTicks)

CheckKeys ==
    {"check_commits", "check_security", "check_language",
     "check_code_quality", "check_coverage"}

\* Every set of enabled checks, and the empty dict the tests pass.
OptionDicts == [CheckKeys -> BOOLEAN] \cup {EmptyDict}

\* A report dict holding one list, left out of the results when the list is
\* empty (the tests build their analysis results that way).
NonEmptyReport(key, list_key, warnings) ==
    IF Len(warnings) = 0 THEN EmptyDict ELSE key :> (list_key :> warnings)

CodeQualityWarnings(profile) ==
    WarningList("Long function", profile["long"])
    \o WarningList("Circular dependency", profile["circular"])
    \o WarningList("High-entropy", profile["entropy"])

Results(structure, commits, date, profile) ==
    LET commit_warnings == WarningList("Bad commit message", profile["commit"])
        history ==
            ("total_commits" :> commits) @@ ("most_recent_commit_date" :> date)
            @@ (IF Len(commit_warnings) = 0 THEN EmptyDict
                ELSE "commits_quality_warnings" :> commit_warnings)
    IN  ("structure" :> structure) @@ ("history" :> history)
        @@ NonEmptyReport("security", "secrets_warnings",
                  WarningList("Potential", profile["secret"]))
        @@ NonEmptyReport("language", "language_warnings",
                  WarningList("missing", profile["language"]))
        @@ NonEmptyReport("code_quality", "code_quality_warnings",
                  CodeQualityWarnings(profile))
        @@ NonEmptyReport("coverage", "coverage_warnings",
                  WarningList("No test file found", profile["coverage"]))

-----------------------------------------------------------------------------
(* main.py: the scoring steps of main *)

\* The command line and the analyzers applied on their own are not in use.
UnitsIdle ==
    /\ args = EmptyDict
    /\ stderr = <<>>
    /\ git = EmptyDict
    /\ git_history = EmptyDict
    /\ commit_lines = <<>>
    /\ unique_warnings = <<>>
    /\ import_graph = <<>>
    /\ cycle_warnings = <<>>
    /\ files = <<>>
    /\ coverage_results = EmptyDict

\* Nothing has been put out.
OutputIdle ==
    /\ stdout = <<>>
    /\ opened = <<>>

\* The helpers of the analyzers applied on their own are not in use.
ToolsIdle ==
    /\ tree = <<>>
    /\ primary_language = ""
    /\ sample = <<>>
    /\ entropy = EmptyDict

NotRun == [score |-> 0, breakdown |-> EmptyDict, category |-> ""]

\* Every structure and history with a uniform warning profile, and every
\* swept warning profile with the extreme structures and histories.
Init ==
    /\ \E s \in Structures, c \in 0..MaxCommits, d \in Dates, clock \in Clocks :
         \E p \in SweepProfiles \cup UniformProfiles :
            /\ \/ p \in UniformProfiles
               \/ /\ s \in CornerStructures
                  /\ c \in {0, MaxCommits}
                  /\ d \in {NoDate, MaxDate}
                  /\ clock = RecentDays
            /\ analysis_results = Results(s, c, d, p)
            /\ now = clock
    /\ options \in OptionDicts
    /\ repo = EmptyDict
    /\ pc = "score"
    /\ health_score = NotRun.score
    /\ score_breakdown = NotRun.breakdown
    /\ score_category = NotRun.category
    /\ runs = <<>>
    /\ UnitsIdle
    /\ OutputIdle
    /\ ToolsIdle

\* health_score, score_breakdown = calculate_health_score(analysis_results, options)
Score ==
    /\ pc = "score"
    /\ health_score' = CalculateHealthScore(analysis_results, options, now)[1]
    /\ score_breakdown' = CalculateHealthScore(analysis_results, options, now)[2]
    /\ pc' = "categorize"
    /\ UNCHANGED <<repo, analysis_results, options, now, score_category, runs>>
    /\ UNCHANGED unitVars
    /\ UNCHANGED outputVars
    /\ UNCHANGED toolVars

\* score_category = get_score_category(health_score)
Categorize ==
    /\ pc = "categorize"
    /\ score_category' = GetScoreCategory(health_score)
    /\ pc' = "report"
    /\ UNCHANGED <<repo, analysis_results, options, now, health_score,
                   score_breakdown, runs>>
    /\ UNCHANGED unitVars
    /\ UNCHANGED outputVars
    /\ UNCHANGED toolVars

Next == Score \/ Categorize

Spec == Init /\ [][Next]_vars

-----------------------------------------------------------------------------
(* get_score_category applied to every score *)

InitCategory ==
    /\ health_score \in 0..MaxScore
    /\ pc = "categorize"
    /\ repo = EmptyDict
    /\ analysis_results = EmptyDict
    /\ options = EmptyDict
    /\ now = RecentDays
    /\ score_breakdown = NotRun.breakdown
    /\ score_category = NotRun.category
    /\ runs = <<>>
    /\ UnitsIdle
    /\ OutputIdle
    /\ ToolsIdle

NextCategory == Categorize

SpecCategory == InitCategory /\ [][NextCategory]_vars

-----------------------------------------------------------------------------
(* analyzer.py: analyze_repository, and main run again on the same repository *)

\* A repository: the four files and directories probed, what git reports
\* about its commits, and the warnings each analyzer derives from its tree.
\* A repository has a most recent commit exactly when it has a commit.
Repositories ==
    {r \in [structure : CornerStructures,
            total_commits : 0..MaxCommits,
            most_recent_commit_date : Dates,
            found : UniformProfiles] :
        r.total_commits = 0 <=> r.most_recent_commit_date = NoDate}

\* analyze_repository_structure: the four existence probes.
AnalyzeRepositoryStructure(r) == r.structure

\* analyze_git_history on a repository whose git calls answer: on one without
\* commits git rev-list HEAD exits non-zero and the defaults are returned.
AnalyzeGitHistory(r, opts) ==
    IF r.total_commits = 0
    THEN [total_commits |-> 0,
          most_recent_commit_date |-> NoDate,
          commits_quality_warnings |-> <<>>]
    ELSE [total_commits |-> r.total_commits,
          most_recent_commit_date |-> r.most_recent_commit_date,
          commits_quality_warnings |->
             IF Get(opts, "check_commits", FALSE)
             THEN WarningList("Bad commit message", r.found["commit"])
             ELSE <<>>]

\* Mutant: the report stored whether or not the check is requested.
RequestedReportAlways(opts, check, key, report) == key :> report

\* results[key] = report, only when the check is requested.
RequestedReport(opts, check, key, report) ==
    IF Get(opts, check, FALSE) THEN key :> report ELSE EmptyDict

AnalyzeRepository(r, opts) ==
    ("structure" :> AnalyzeRepositoryStructure(r))
    @@ ("history" :> AnalyzeGitHistory(r, opts))
    @@ RequestedReport(opts, "check_security", "security",
          [secrets_warnings |-> WarningList("Potential", r.found["secret"])])
    @@ RequestedReport(opts, "check_language", "language",
          [language_warnings |-> WarningList("missing", r.found["language"])])
    @@ RequestedReport(opts, "check_code_quality", "code_quality",
          [code_quality_warnings |-> CodeQualityWarnings(r.found)])
    @@ RequestedReport(opts, "check_coverage", "coverage",
          [coverage_warnings |->
              WarningList("No test file found", r.found["coverage"])])

\* What analyze_git_history prints: the warning of its except clause on a
\* repository without commits.
AnalyzeGitHistoryPrints(r) ==
    IF r.total_commits = 0
    THEN <<"Warning: Could not analyze git history">>
    ELSE <<>>

\* if not quiet: print_progress(message, "")
ProgressMessage(quiet, message) == IF ~quiet THEN <<message>> ELSE <<>>

\* if verbose and not quiet: print_success(message)
SuccessMessage(verbose, quiet, message) ==
    IF verbose /\ ~quiet THEN <<message>> ELSE <<>>

\* The two messages around an optional check, when the check is requested.
RequestedMessages(opts, check, verbose, quiet, progress, success) ==
    IF Get(opts, check, FALSE)
    THEN ProgressMessage(quiet, progress)
         \o SuccessMessage(verbose, quiet, success)
    ELSE <<>>

\* What analyze_repository and the analyzers it calls print, in order.
AnalyzeRepositoryPrints(r, opts, verbose, quiet) ==
    ProgressMessage(quiet, "Analyzing repository structure...")
    \o SuccessMessage(verbose, quiet, "Repository structure analyzed")
    \o ProgressMessage(quiet, "Analyzing git history...")
    \o AnalyzeGitHistoryPrints(r)
    \o SuccessMessage(verbose, quiet, "Git history analyzed")
    \o RequestedMessages(opts, "check_security", verbose, quiet,
           "Scanning for security issues...", "Security scan completed")
    \o RequestedMessages(opts, "check_language", verbose, quiet,
           "Analyzing language-specific requirements...",
           "Language analysis completed")
    \o RequestedMessages(opts, "check_code_quality", verbose, quiet,
           "Analyzing code quality...", "Code quality analysis completed")
    \o RequestedMessages(opts, "check_coverage", verbose, quiet,
           "Analyzing code coverage...", "Code coverage analysis completed")

\* None as the value of an option.
None == "None"

\* bool(options[k]): a flag is its value, a string is true unless empty, None
\* is false.
Truthy(opts, k) ==
    IF k \in {"format", "output"} THEN opts[k] \notin {None, ""} ELSE opts[k]

\* bool(options.get(k)) and bool(options.get(k, False))
IsSet(opts, k) == k \in DOMAIN opts /\ Truthy(opts, k)

\* main on a repository, with the option dict restricted to the check keys.
InitRuns ==
    /\ repo \in Repositories
    /\ options \in [CheckKeys -> BOOLEAN]
    /\ now \in Clocks
    /\ pc = "analyze"
    /\ analysis_results = EmptyDict
    /\ health_score = NotRun.score
    /\ score_breakdown = NotRun.breakdown
    /\ score_category = NotRun.category
    /\ runs = <<>>
    /\ UnitsIdle
    /\ OutputIdle
    /\ ToolsIdle

\* analysis_results = analyze_repository(repo_path, options): verbose and
\* quiet are left at their defaults.
Analyze ==
    /\ pc = "analyze"
    /\ analysis_results' = AnalyzeRepository(repo, options)
    /\ stdout' = stdout \o AnalyzeRepositoryPrints(repo, options, FALSE, FALSE)
    /\ pc' = "score"
    /\ UNCHANGED opened
    /\ UNCHANGED <<repo, options, now, health_score, score_breakdown,
                   score_category, runs>>
    /\ UNCHANGED unitVars
    /\ UNCHANGED toolVars

\* The report with the score and the breakdown is formatted and put out:
\* written to the output file, which open() opens or fails to open, or
\* printed.  The process ends.
Report ==
    /\ pc = "report"
    /\ runs' = Append(runs, [clock |-> now, score |-> health_score,
                             breakdown |-> score_breakdown,
                             category |-> score_category])
    /\ LET quiet == IsSet(options, "quiet")
           output_file == Get(options, "output", None)
           complete == IF ~quiet THEN <<"Analysis complete">> ELSE <<>>
       IN  IF IsSet(options, "output")
           THEN /\ opened' = Append(opened, output_file)
                /\ \E failed \in BOOLEAN :
                      stdout' =
                         stdout
                         \o (IF failed THEN <<"Error saving report">>
                             ELSE IF ~quiet THEN <<"Report saved to">>
                             ELSE <<>>)
                         \o complete
           ELSE /\ stdout' = stdout \o <<"report">> \o complete
                /\ UNCHANGED opened
    /\ pc' = "done"
    /\ UNCHANGED <<repo, analysis_results, options, now, health_score,
                   score_breakdown, score_category>>
    /\ UNCHANGED unitVars
    /\ UNCHANGED toolVars

\* The wall clock advances by a day between two runs.
Tick ==
    /\ pc = "done"
    /\ now < RecentDays + MaxTicks
    /\ now' = now + 1
    /\ UNCHANGED <<repo, analysis_results, options, pc, health_score,
                   score_breakdown, score_category, runs>>
    /\ UNCHANGED unitVars
    /\ UNCHANGED outputVars
    /\ UNCHANGED toolVars

\* main is started again on the unchanged repository with the same options.
RunAgain ==
    /\ pc = "done"
    /\ Len(runs) < MaxRuns
    /\ pc' = "analyze"
    /\ stdout' = <<>>
    /\ opened' = <<>>
    /\ analysis_results' = EmptyDict
    /\ health_score' = NotRun.score
    /\ score_breakdown' = NotRun.breakdown
    /\ score_category' = NotRun.category
    /\ UNCHANGED <<repo, options, now, runs>>
    /\ UNCHANGED unitVars
    /\ UNCHANGED toolVars

NextRuns == Analyze \/ Score \/ Categorize \/ Report \/ Tick \/ RunAgain

SpecRuns == InitRuns /\ [][NextRuns]_vars

-----------------------------------------------------------------------------
(* utils.py: validate_repo_path, on the paths a command line can name *)

\* A path that does not exist, a regular file, a directory without .git, a
\* directory whose .git is a regular file, and a directory with a .git
\* directory.
PathNames == {"missing", "notes.txt", "plain", "worktree", "repo"}

\* os.path.exists(abs_path)
Exists(p) == p # "missing"

\* os.path.isdir(abs_path)
IsDir(p) == p \in {"plain", "worktree", "repo"}

\* (Path(repo_path) / '.git').exists()
GitExists(p) == p \in {"worktree", "repo"}

\* (Path(repo_path) / '.git').is_dir()
GitIsDir(p) == p = "repo"

\* git_dir.exists() and git_dir.is_dir()
IsGitRepository(p) == GitExists(p) /\ GitIsDir(p)

\* Mutant: the git check made before the existence and directory checks.
ValidateRepoPathGitFirst(p) ==
    IF ~IsGitRepository(p)
    THEN [raised |-> TRUE, value |-> "Path is not a git repository"]
    ELSE IF ~Exists(p)
    THEN [raised |-> TRUE, value |-> "Path does not exist"]
    ELSE IF ~IsDir(p)
    THEN [raised |-> TRUE, value |-> "Path is not a directory"]
    ELSE [raised |-> FALSE, value |-> p]

\* The ValueError raised, or the path returned.
ValidateRepoPath(p) ==
    IF ~Exists(p)
    THEN [raised |-> TRUE, value |-> "Path does not exist"]
    ELSE IF ~IsDir(p)
    THEN [raised |-> TRUE, value |-> "Path is not a directory"]
    ELSE IF ~IsGitRepository(p)
    THEN [raised |-> TRUE, value |-> "Path is not a git repository"]
    ELSE [raised |-> FALSE, value |-> p]

-----------------------------------------------------------------------------
(* cli.py and main.py: main from the command line to the report *)

Formats == {"text", "json", "yaml", "markdown"}

\* parse_arguments: every Namespace the parser returns.
Namespaces ==
    [repo_path : PathNames,
     check_commits : BOOLEAN, check_security : BOOLEAN,
     check_language : BOOLEAN, check_code_quality : BOOLEAN,
     check_coverage : BOOLEAN,
     verbose : BOOLEAN, quiet : BOOLEAN,
     format : Formats, output : {None, "report.txt"}]

OptionKeys == CheckKeys \cup {"verbose", "quiet", "format", "output"}

\* The options dict built from args.
OptionsOf(a) == [k \in OptionKeys |-> a[k]]

\* any(options.values())
AnyValue(opts) == \E k \in DOMAIN opts : Truthy(opts, k)

AllChecks == [k \in CheckKeys |-> TRUE]

\* The repositories main is run on from the command line.
MainRepositories == {r \in Repositories : r.found = Profile("commit", 1, 1)}

InitMain ==
    /\ args \in Namespaces
    /\ repo \in MainRepositories
    /\ now = RecentDays
    /\ pc = "start"
    /\ options = EmptyDict
    /\ analysis_results = EmptyDict
    /\ health_score = NotRun.score
    /\ score_breakdown = NotRun.breakdown
    /\ score_category = NotRun.category
    /\ runs = <<>>
    /\ stderr = <<>>
    /\ git = EmptyDict
    /\ git_history = EmptyDict
    /\ commit_lines = <<>>
    /\ unique_warnings = <<>>
    /\ import_graph = <<>>
    /\ cycle_warnings = <<>>
    /\ files = <<>>
    /\ coverage_results = EmptyDict
    /\ OutputIdle
    /\ ToolsIdle

\* repo_path, options = get_repo_path_and_options(): the options built from
\* args, or the ValueError of validate_repo_path printed and sys.exit(1).
GetRepoPathAndOptions ==
    /\ pc = "start"
    /\ LET validated == ValidateRepoPath(args.repo_path)
       IN  IF validated.raised
           THEN /\ stderr' = Append(stderr, validated.value)
                /\ pc' = "exit"
                /\ UNCHANGED options
           ELSE /\ options' = OptionsOf(args)
                /\ pc' = "options"
                /\ UNCHANGED stderr
    /\ UNCHANGED <<repo, analysis_results, now, health_score, score_breakdown,
                   score_category, runs>>
    /\ UNCHANGED <<args, git, git_history, commit_lines, unique_warnings,
                   import_graph, cycle_warnings, files, coverage_results>>
    /\ UNCHANGED outputVars
    /\ UNCHANGED toolVars

\* if not any(options.values()): options = {all five checks: True}
DefaultChecks ==
    /\ pc = "options"
    /\ options' = IF ~AnyValue(options) THEN AllChecks ELSE options
    /\ pc' = "announce"
    /\ UNCHANGED <<repo, analysis_results, now, health_score, score_breakdown,
                   score_category, runs>>
    /\ UNCHANGED unitVars
    /\ UNCHANGED outputVars
    /\ UNCHANGED toolVars

\* The checks in the order the configuration list reads them, each with its
\* line.
ConfigurationLines ==
    <<[check |-> "check_commits", line |-> "Commit quality checks enabled"],
      [check |-> "check_security", line |-> "Security scan for secrets enabled"],
      [check |-> "check_language", line |-> "Language-specific checks enabled"],
      [check |-> "check_code_quality", line |-> "Code quality checks enabled"],
      [check |-> "check_coverage", line |-> "Code coverage analysis enabled"]>>

\* The lines printed for the first n checks of the configuration list.
RECURSIVE Configuration(_, _)
Configuration(opts, n) ==
    IF n = 0 THEN <<>>
    ELSE Configuration(opts, n - 1)
         \o (IF Truthy(opts, ConfigurationLines[n].check)
             THEN <<ConfigurationLines[n].line>> ELSE <<>>)

\* print_progress_bar(current, total)
PrintProgressBar(current, total, quiet_mode) ==
    IF total = 0 \/ quiet_mode THEN <<>>
    ELSE <<"Progress">> \o (IF current = total THEN <<"">> ELSE <<>>)

\* total_steps: structure and history, and one for each further check asked.
TotalSteps(opts) ==
    2 + Cardinality({k \in {"check_security", "check_language",
                            "check_code_quality", "check_coverage"} :
                        IsSet(opts, k)})

\* quiet = options.get('quiet', False); if not quiet: the banner, the
\* configuration list, which reads options[check] of each check and raises
\* KeyError at the first that is no key, and the progress bar.  The KeyError
\* is caught nowhere: the traceback goes to stderr and the process ends.
Announce ==
    /\ pc = "announce"
    /\ LET quiet == IsSet(options, "quiet")
           banner == <<"Git Repo Health Checker", "Repository", "CONFIGURATION">>
           absent == {n \in DOMAIN ConfigurationLines :
                        ConfigurationLines[n].check \notin DOMAIN options}
       IN  IF quiet
           THEN /\ pc' = "analyze"
                /\ UNCHANGED <<stdout, stderr>>
           ELSE IF absent # {}
           THEN LET first == CHOOSE n \in absent : \A m \in absent : n <= m
                IN  /\ stdout' = stdout \o banner
                                  \o Configuration(options, first - 1)
                    /\ stderr' = Append(stderr, "KeyError")
                    /\ pc' = "exit"
           ELSE /\ stdout' = stdout \o banner
                              \o Configuration(options, Len(ConfigurationLines))
                              \o <<"ANALYSIS IN PROGRESS">>
                              \o PrintProgressBar(0, TotalSteps(options), quiet)
                /\ pc' = "analyze"
                /\ UNCHANGED stderr
    /\ UNCHANGED mainVars
    /\ UNCHANGED <<args, git, git_history, commit_lines, unique_warnings,
                   import_graph, cycle_warnings, files, coverage_results>>
    /\ UNCHANGED opened
    /\ UNCHANGED toolVars

NextMain ==
    GetRepoPathAndOptions \/ DefaultChecks \/ Announce \/ Analyze \/ Score
    \/ Categorize \/ Report

SpecMain == InitMain /\ [][NextMain]_vars

-----------------------------------------------------------------------------
(* Python strings: a string is the sequence of its characters *)

Letters ==
    {"a", "b", "c", "d", "e", "f", "g", "h", "i", "k", "m", "n", "o", "p", "r",
     "s", "t", "u", "w", "x"}

Capitals == {"M", "W", "I", "P"}

LowerCase == ("M" :> "m") @@ ("W" :> "w") @@ ("I" :> "i") @@ ("P" :> "p")

Digits == {"1", "2", "3", "4"}

\* A character the regular expression class \w matches.
IsWordChar(c) == c \in Letters \cup Capitals \cup Digits \cup {"_"}

\* str.lower()
Lower(text) ==
    [i \in DOMAIN text |->
        IF text[i] \in DOMAIN LowerCase THEN LowerCase[text[i]] ELSE text[i]]

\* str.strip()
Strip(text) ==
    LET kept == {i \in DOMAIN text : text[i] # " "}
    IN  IF kept = {} THEN <<>>
        ELSE SubSeq(text, CHOOSE i \in kept : \A j \in kept : i <= j,
                          CHOOSE i \in kept : \A j \in kept : i >= j)

\* str.split(' ', 1)
SplitOnce(text) ==
    LET spaces == {i \in DOMAIN text : text[i] = " "}
    IN  IF spaces = {} THEN <<text>>
        ELSE LET first == CHOOSE i \in spaces : \A j \in spaces : i <= j
             IN  <<SubSeq(text, 1, first - 1), SubSeq(text, first + 1, Len(text))>>

\* str.startswith(prefix)
StartsWith(text, prefix) ==
    Len(text) >= Len(prefix) /\ SubSeq(text, 1, Len(prefix)) = prefix

\* re.search(r'\b' + re.escape(keyword) + r'\b', message): keyword begins and
\* ends with a word character, so \b holds at an end of the message and next
\* to a character that is not a word character.
SearchWord(keyword, message) ==
    \E i \in 1..(Len(message) - Len(keyword) + 1) :
        /\ SubSeq(message, i, i + Len(keyword) - 1) = keyword
        /\ i = 1 \/ ~IsWordChar(message[i - 1])
        /\ i + Len(keyword) - 1 = Len(message)
           \/ ~IsWordChar(message[i + Len(keyword)])

-----------------------------------------------------------------------------
(* analyzer.py: analyze_commit_quality *)

bad_keywords ==
    << <<"w", "i", "p">>, <<"f", "i", "x">>, <<"t", "e", "m", "p">>,
       <<"t", "e", "s", "t">>, <<"d", "e", "b", "u", "g">>,
       <<"h", "a", "c", "k">> >>

very_short_threshold == 10

\* The two warning dicts; message holds the parts of the formatted text.
BadKeywordWarning(commit, keyword) ==
    [message |-> [text |-> "Bad commit message", line |-> Strip(commit),
                  contains |-> keyword],
     tip |-> "Use descriptive commit messages"]

ShortMessageWarning(commit) ==
    [message |-> [text |-> "Very short commit message", line |-> Strip(commit),
                  contains |-> <<>>],
     tip |-> "Write meaningful commit messages"]

\* Mutant: the length rule only looked at when no keyword was found.
CommitWarningsFirstRuleOnly(commit) ==
    IF Strip(commit) = <<>> \/ Len(SplitOnce(commit)) < 2 THEN <<>>
    ELSE LET message == Lower(SplitOnce(commit)[2])
             found == SelectSeq(bad_keywords, LAMBDA k : SearchWord(k, message))
         IN  IF Len(found) > 0
             THEN [i \in 1..Len(found) |-> BadKeywordWarning(commit, found[i])]
             ELSE IF Len(message) < very_short_threshold
                     /\ ~StartsWith(message, <<"m", "e", "r", "g", "e">>)
                  THEN <<ShortMessageWarning(commit)>>
                  ELSE <<>>

\* The warnings one pass of the loop over commits appends.
CommitWarnings(commit) ==
    IF Strip(commit) = <<>> \/ Len(SplitOnce(commit)) < 2 THEN <<>>
    ELSE LET message == Lower(SplitOnce(commit)[2])
             found == SelectSeq(bad_keywords, LAMBDA k : SearchWord(k, message))
         IN  [i \in 1..Len(found) |-> BadKeywordWarning(commit, found[i])]
             \o (IF Len(message) < very_short_threshold
                    /\ ~StartsWith(message, <<"m", "e", "r", "g", "e">>)
                 THEN <<ShortMessageWarning(commit)>>
                 ELSE <<>>)

RECURSIVE AllCommitWarnings(_)
AllCommitWarnings(lines) ==
    IF lines = <<>> THEN <<>>
    ELSE AllCommitWarnings(SubSeq(lines, 1, Len(lines) - 1))
         \o CommitWarnings(lines[Len(lines)])

\* Remove duplicates based on message, keeping the first of each.
RECURSIVE UniqueWarnings(_)
UniqueWarnings(ws) ==
    IF ws = <<>> THEN <<>>
    ELSE LET last == ws[Len(ws)]
             before == SubSeq(ws, 1, Len(ws) - 1)
         IN  IF \E j \in DOMAIN before : before[j].message = last.message
             THEN UniqueWarnings(before)
             ELSE Append(UniqueWarnings(before), last)

AnalyzeCommitQuality(lines) == UniqueWarnings(AllCommitWarnings(lines))

\* The pieces commit subjects are made of: the keywords in both cases, words
\* that contain a keyword, merge in both cases, separators and fillers.
Pieces ==
    { <<"w", "i", "p">>, <<"W", "I", "P">>, <<"f", "i", "x">>,
      <<"t", "e", "m", "p">>, <<"t", "e", "s", "t">>,
      <<"d", "e", "b", "u", "g">>, <<"h", "a", "c", "k">>,
      <<"M", "e", "r", "g", "e">>, <<"m", "e", "r", "g", "e">>,
      <<"s">>, <<"_">>, <<" ">>, <<"-">>,
      <<"a", "d", "d">>,
      <<"a", "u", "t", "h", "e", "n", "t", "i", "c", "a", "t", "i", "o", "n">> }

MaxPieces == 3       \* a subject is made of 0..MaxPieces pieces
MaxLines == 2        \* analyze_commit_quality is given 0..MaxLines lines

RECURSIVE Joined(_)
Joined(pieces) ==
    IF pieces = <<>> THEN <<>>
    ELSE Joined(SubSeq(pieces, 1, Len(pieces) - 1)) \o pieces[Len(pieces)]

Subjects ==
    UNION {{Joined(ps) : ps \in [1..n -> Pieces]} : n \in 0..MaxPieces}

\* The subjects of the lines given together with other lines.
CornerSubjects ==
    { <<"w", "i", "p">>,
      <<"f", "i", "x">> \o <<" ">> \o <<"h", "a", "c", "k">>,
      <<"M", "e", "r", "g", "e">>,
      <<"a", "u", "t", "h", "e", "n", "t", "i", "c", "a", "t", "i", "o", "n">> }

Hashes ==
    { <<"a", "b", "c", "1", "2", "3", "4">>,
      <<"d", "e", "f", "1", "2", "3", "4">> }

\* A hash alone, a hash and a space, and "<hash> <subject>".
LinesOf(subjects) ==
    Hashes \cup {h \o <<" ">> \o m : h \in Hashes, m \in subjects}

\* One line with any subject, and up to MaxLines lines with corner subjects,
\* the empty line and a blank line among them.
CommitLists ==
    {<<l>> : l \in LinesOf(Subjects)}
    \cup UNION {[1..n -> LinesOf(CornerSubjects) \cup {<<>>, <<" ", " ">>}] :
                   n \in 0..MaxLines}

MainIdle ==
    /\ repo = EmptyDict
    /\ analysis_results = EmptyDict
    /\ options = EmptyDict
    /\ now = RecentDays
    /\ health_score = NotRun.score
    /\ score_breakdown = NotRun.breakdown
    /\ score_category = NotRun.category
    /\ runs = <<>>

InitCommits ==
    /\ commit_lines \in CommitLists
    /\ unique_warnings = <<>>
    /\ pc = "call"
    /\ MainIdle
    /\ args = EmptyDict
    /\ stderr = <<>>
    /\ git = EmptyDict
    /\ git_history = EmptyDict
    /\ import_graph = <<>>
    /\ cycle_warnings = <<>>
    /\ files = <<>>
    /\ coverage_results = EmptyDict
    /\ OutputIdle
    /\ ToolsIdle

\* unique_warnings = analyze_commit_quality(commits)
AnalyzeCommitQualityCall ==
    /\ pc = "call"
    /\ unique_warnings' = AnalyzeCommitQuality(commit_lines)
    /\ pc' = "return"
    /\ UNCHANGED mainVars
    /\ UNCHANGED <<args, stderr, git, git_history, commit_lines, import_graph,
                   cycle_warnings, files, coverage_results>>
    /\ UNCHANGED outputVars
    /\ UNCHANGED toolVars

NextCommits == AnalyzeCommitQualityCall

SpecCommits == InitCommits /\ [][NextCommits]_vars

-----------------------------------------------------------------------------
(* analyzer.py: analyze_git_history, on what its three git calls do *)

\* subprocess.run of git rev-list --count HEAD: it raises (non-zero exit under
\* check=True, or no git binary), or returns a stdout that int() parses to
\* value or rejects with ValueError.
CountCalls ==
    {[raised |-> TRUE, parses |-> FALSE, value |-> 0],
     [raised |-> FALSE, parses |-> FALSE, value |-> 0]}
    \cup {[raised |-> FALSE, parses |-> TRUE, value |-> n] : n \in 0..MaxCommits}

\* subprocess.run of git log -1 --format=%ci HEAD: it raises, or returns a
\* stdout that is blank, or one that strptime parses to the day value or
\* rejects with ValueError.
DateCalls ==
    {[raised |-> TRUE, blank |-> FALSE, parses |-> FALSE, value |-> NoDate],
     [raised |-> FALSE, blank |-> TRUE, parses |-> FALSE, value |-> NoDate],
     [raised |-> FALSE, blank |-> FALSE, parses |-> FALSE, value |-> NoDate]}
    \cup {[raised |-> FALSE, blank |-> FALSE, parses |-> TRUE, value |-> d] :
             d \in 0..MaxDate}

\* subprocess.run of git log --oneline -100: it raises, or returns the lines.
LogCalls ==
    {[raised |-> TRUE, lines |-> <<>>]}
    \cup {[raised |-> FALSE, lines |-> ls] :
             ls \in { <<>>,
                      << <<"a", "b", "c", "1", "2", "3", "4", " ", "w", "i", "p">> >>,
                      << <<"d", "e", "f", "1", "2", "3", "4", " ", "M", "e", "r", "g", "e">>,
                         <<"a", "b", "c", "1", "2", "3", "4", " ", "f", "i", "x">> >> }}

GitCalls == [count : CountCalls, date : DateCalls, log : LogCalls]

\* results as initialized.
NoHistory ==
    [total_commits |-> 0,
     most_recent_commit_date |-> NoDate,
     commits_quality_warnings |-> <<>>]

\* The dict returned: results as the try block has filled it in when it ends
\* or when the first exception sends it to an except clause.
AnalyzeGitHistoryCalls(calls, opts) ==
    IF calls.count.raised \/ ~calls.count.parses THEN NoHistory
    ELSE LET counted == [NoHistory EXCEPT !.total_commits = calls.count.value]
         IN  IF calls.date.raised THEN counted
             ELSE IF ~calls.date.blank /\ ~calls.date.parses THEN counted
             ELSE LET dated ==
                          IF calls.date.blank THEN counted
                          ELSE [counted EXCEPT
                                   !.most_recent_commit_date = calls.date.value]
                  IN  IF ~Get(opts, "check_commits", FALSE) THEN dated
                      ELSE IF calls.log.raised THEN dated
                      ELSE [dated EXCEPT !.commits_quality_warnings =
                                AnalyzeCommitQuality(calls.log.lines)]

\* What the except clauses print: nothing when no call fails, one warning
\* for the first failure otherwise.  A git call that raises, raises
\* CalledProcessError or, without a git binary, an OSError.
AnalyzeGitHistoryWarnings(calls, opts) ==
    LET raised == {<<"Warning: Could not analyze git history">>,
                   <<"Warning: Unexpected error analyzing git history">>}
        rejected == {<<"Warning: Could not parse commit date">>}
    IN  IF calls.count.raised THEN raised
        ELSE IF ~calls.count.parses THEN rejected
        ELSE IF calls.date.raised THEN raised
        ELSE IF ~calls.date.blank /\ ~calls.date.parses THEN rejected
        ELSE IF Get(opts, "check_commits", FALSE) /\ calls.log.raised THEN raised
        ELSE {<<>>}

InitHistory ==
    /\ git \in GitCalls
    /\ options \in {EmptyDict} \cup [{"check_commits"} -> BOOLEAN]
    /\ git_history = EmptyDict
    /\ pc = "call"
    /\ repo = EmptyDict
    /\ analysis_results = EmptyDict
    /\ now = RecentDays
    /\ health_score = NotRun.score
    /\ score_breakdown = NotRun.breakdown
    /\ score_category = NotRun.category
    /\ runs = <<>>
    /\ args = EmptyDict
    /\ stderr = <<>>
    /\ commit_lines = <<>>
    /\ unique_warnings = <<>>
    /\ import_graph = <<>>
    /\ cycle_warnings = <<>>
    /\ files = <<>>
    /\ coverage_results = EmptyDict
    /\ OutputIdle
    /\ ToolsIdle

\* history = analyze_git_history(repo_path, options)
AnalyzeGitHistoryCall ==
    /\ pc = "call"
    /\ git_history' = AnalyzeGitHistoryCalls(git, options)
    /\ \E printed \in AnalyzeGitHistoryWarnings(git, options) :
          stdout' = stdout \o printed
    /\ pc' = "return"
    /\ UNCHANGED mainVars
    /\ UNCHANGED <<args, stderr, git, commit_lines, unique_warnings,
                   import_graph, cycle_warnings, files, coverage_results>>
    /\ UNCHANGED opened
    /\ UNCHANGED toolVars

NextHistory == AnalyzeGitHistoryCall

SpecHistory == InitHistory /\ [][NextHistory]_vars

-----------------------------------------------------------------------------
(* analyzer.py: check_circular_dependencies *)

\* import_graph is a dict kept in insertion order: a sequence of entries, one
\* per module that imports something, each with the list of its imports.

\* Mutant: the graph taken as undirected, the modules that import node being
\* neighbors of node too.
NeighborsUndirected(graph, node) ==
    LET importers ==
            SelectSeq(graph, LAMBDA e : \E j \in DOMAIN e.imports : e.imports[j] = node)
    IN  (IF \E i \in DOMAIN graph : graph[i].module = node
         THEN graph[CHOOSE i \in DOMAIN graph : graph[i].module = node].imports
         ELSE <<>>)
        \o [i \in 1..Len(importers) |-> importers[i].module]

\* Mutant: of the imports of a module only the first is followed.
NeighborsFirstOnly(graph, node) ==
    IF \E i \in DOMAIN graph : graph[i].module = node
    THEN SubSeq(graph[CHOOSE i \in DOMAIN graph : graph[i].module = node].imports,
                1, 1)
    ELSE <<>>

\* import_graph.get(node, [])
Neighbors(graph, node) ==
    IF \E i \in DOMAIN graph : graph[i].module = node
    THEN graph[CHOOSE i \in DOMAIN graph : graph[i].module = node].imports
    ELSE <<>>

\* path.index(neighbor)
Index(path, neighbor) ==
    CHOOSE i \in DOMAIN path :
        path[i] = neighbor /\ \A j \in 1..(i - 1) : path[j] # neighbor

\* Mutant: the cycle reported as the repeated node alone.
CycleOfNeighborOnly(path, neighbor) == <<neighbor, neighbor>>

\* Mutant: the cycle reported as the whole path, from the start node on.
CycleOfWholePath(path, neighbor) == path \o <<neighbor>>

\* cycle = path[cycle_start:] + [neighbor]
CycleOf(path, neighbor) ==
    SubSeq(path, Index(path, neighbor), Len(path)) \o <<neighbor>>

\* The warning dict; cycle is the node sequence joined into the message.
CycleWarning(cycle) ==
    [message |-> {"Circular dependency"}, cycle |-> cycle, tip |-> "tip"]

\* path.pop(); rec_stack.remove(node); return False
Leave(st, node) ==
    [st EXCEPT !.path = SubSeq(@, 1, Len(@) - 1),
               !.rec_stack = @ \ {node},
               !.returned = FALSE]

\* neighbor in rec_stack
OnStack(st, neighbor) == neighbor \in st.rec_stack

\* has_cycle(node, path): the state of visited, rec_stack, path, warnings and
\* cycle_found when the call returns, and the value returned.
RECURSIVE HasCycle(_, _, _)
RECURSIVE VisitNeighbors(_, _, _, _)
HasCycle(graph, node, st) ==
    VisitNeighbors(graph, node, 1,
        [st EXCEPT !.visited = @ \cup {node},
                   !.rec_stack = @ \cup {node},
                   !.path = Append(@, node)])

\* The loop over the neighbors of node, from the i-th on.
VisitNeighbors(graph, node, i, st) ==
    IF i > Len(Neighbors(graph, node))
    THEN Leave(st, node)
    ELSE LET neighbor == Neighbors(graph, node)[i]
         IN  IF neighbor \notin st.visited
             THEN LET inner == HasCycle(graph, neighbor, st)
                  IN  IF inner.returned THEN inner
                      ELSE VisitNeighbors(graph, node, i + 1, inner)
             ELSE IF OnStack(st, neighbor)
             THEN [st EXCEPT !.warnings =
                                Append(@, CycleWarning(CycleOf(st.path, neighbor))),
                             !.cycle_found = TRUE,
                             !.returned = TRUE]
             ELSE VisitNeighbors(graph, node, i + 1, st)

\* Mutant: the loop over the start nodes without its break.
StopsNever(st) == FALSE

\* if cycle_found: break
Stops(st) == st.cycle_found

\* The loop over the keys of import_graph, from the k-th on.
RECURSIVE Traverse(_, _, _)
Traverse(graph, k, st) ==
    IF k > Len(graph) THEN st
    ELSE IF graph[k].module \in st.visited THEN Traverse(graph, k + 1, st)
    ELSE LET after == HasCycle(graph, graph[k].module, [st EXCEPT !.path = <<>>])
         IN  IF Stops(after) THEN after ELSE Traverse(graph, k + 1, after)

\* The state before the loop over the start nodes.
TraversalStart ==
    [visited |-> {}, rec_stack |-> {}, path |-> <<>>, warnings |-> <<>>,
     cycle_found |-> FALSE, returned |-> FALSE]

CheckCircularDependencies(language, graph) ==
    IF language # "python" THEN <<>>
    ELSE Traverse(graph, 1, TraversalStart).warnings

MaxImports == 2      \* a module imports 1..MaxImports names

\* The names imported: a, b and c are modules that import, d is a module
\* without imports or a name that is no module of the repository.
Names == {"a", "b", "c", "d"}

Importers == {"a", "b", "c"}

\* The imports of a module: a set, iterated in any order.
ImportLists ==
    UNION {{l \in [1..n -> Names] : \A i, j \in 1..n : i # j => l[i] # l[j]} :
              n \in 1..MaxImports}

\* Every import graph over the names, its modules in any order.
Graphs ==
    UNION {{g \in [1..k -> [module : Importers, imports : ImportLists]] :
               \A i, j \in 1..k : i # j => g[i].module # g[j].module} :
              k \in 0..Cardinality(Importers)}

Languages == {"python", "javascript", "go", "unknown"}

InitCycles ==
    /\ repo \in [language : Languages]
    /\ import_graph \in Graphs
    /\ repo.language # "python" => Len(import_graph) <= 1
    /\ cycle_warnings = <<>>
    /\ pc = "call"
    /\ analysis_results = EmptyDict
    /\ options = EmptyDict
    /\ now = RecentDays
    /\ health_score = NotRun.score
    /\ score_breakdown = NotRun.breakdown
    /\ score_category = NotRun.category
    /\ runs = <<>>
    /\ args = EmptyDict
    /\ stderr = <<>>
    /\ git = EmptyDict
    /\ git_history = EmptyDict
    /\ commit_lines = <<>>
    /\ unique_warnings = <<>>
    /\ files = <<>>
    /\ coverage_results = EmptyDict
    /\ OutputIdle
    /\ ToolsIdle

\* warnings = check_circular_dependencies(repo_path, language)
CheckCircularDependenciesCall ==
    /\ pc = "call"
    /\ cycle_warnings' = CheckCircularDependencies(repo.language, import_graph)
    /\ pc' = "return"
    /\ UNCHANGED mainVars
    /\ UNCHANGED <<args, stderr, git, git_history, commit_lines,
                   unique_warnings, import_graph, files, coverage_results>>
    /\ UNCHANGED outputVars
    /\ UNCHANGED toolVars

NextCycles == CheckCircularDependenciesCall

SpecCycles == InitCycles /\ [][NextCycles]_vars

-----------------------------------------------------------------------------
(* analyzer.py: analyze_code_coverage *)

\* A relative path without its .py is the sequence of its components, and a
\* component the sequence of the pieces of its name, 'test_' being a piece of
\* its own: tests/test_a.py is << <<"tests">>, <<"test_", "a">> >>.  The
\* module name, the components joined by '.', is the same sequence.
\*
\* A python file: its path, the number of its FunctionDef nodes whose name
\* does not start with '_' (functions), the lines each of them spans
\* (function_lines), the number of its ClassDef nodes (classes), the number
\* of its FunctionDef nodes whose name starts with 'test_' (test_functions),
\* whether its content, stripped, has at least 50 characters (long), and what
\* open(relative_path) in should_skip_for_coverage finds (at_cwd).  The path
\* opened is relative to the working directory of the process: it is the
\* file itself when that is the repository, and otherwise nothing or another
\* file, a module of at least 50 characters with a function; a test file is
\* skipped before it is opened.  A file defines no function or class but
\* those counted.

skip_file_names ==
    {"__init__", "setup", "conftest", "manage", "wsgi", "asgi", "urls", "admin",
     "apps", "models", "serializers"}

skip_directories == {"migrations", "tests"}

Last(seq) == seq[Len(seq)]

\* 'test_' in path_str
ContainsTestPrefix(path) ==
    \E i \in DOMAIN path : \E j \in DOMAIN path[i] : path[i][j] = "test_"

\* pattern in path_str, for one of skip_patterns
MatchesSkipPattern(path) ==
    \/ Last(Last(path)) \in skip_file_names
    \/ \E i \in 1..(Len(path) - 1) : Last(path[i]) \in skip_directories

\* open(relative_path, 'r') and f.read().strip(): whether open raises, and of
\* the content read whether it has 50 characters and a function or class.
ReadAtCwd(file) ==
    IF file.at_cwd = "itself"
    THEN [raised |-> FALSE, long |-> file.long,
          has_code |-> file.functions > 0 \/ file.classes > 0]
    ELSE IF file.at_cwd = "module"
    THEN [raised |-> FALSE, long |-> TRUE, has_code |-> TRUE]
    ELSE [raised |-> TRUE, long |-> FALSE, has_code |-> FALSE]

ShouldSkipForCoverage(file) ==
    \/ ContainsTestPrefix(file.path)
    \/ MatchesSkipPattern(file.path)
    \/ ReadAtCwd(file).raised
    \/ ~ReadAtCwd(file).long
    \/ ~ReadAtCwd(file).has_code

\* code_files: the entries in insertion order.
CodeFiles(fs) ==
    SelectSeq(fs, LAMBDA f :
        ~ShouldSkipForCoverage(f) /\ (f.functions > 0 \/ f.classes > 0))

\* repo.rglob('test_*.py')
IsTestFile(file) == file.path[Len(file.path)][1] = "test_"

\* The key under which a test file is stored in test_files.
SourceModule(path) ==
    LET unprefixed == IF Len(path) > 1 /\ path[1] = <<"tests">>
                      THEN Tail(path) ELSE path
    IN  [i \in DOMAIN unprefixed |->
            SelectSeq(unprefixed[i], LAMBDA piece : piece # "test_")]

\* The test files that make an entry of test_files, in the order stored.
StoredTestFiles(fs) ==
    SelectSeq(fs, LAMBDA f : IsTestFile(f) /\ f.test_functions > 0)

\* module in test_files
HasTests(fs, module) ==
    \E i \in DOMAIN StoredTestFiles(fs) :
        SourceModule(StoredTestFiles(fs)[i].path) = module

\* len(test_files[module]['test_functions']): the entry stored last.
TestCount(fs, module) ==
    LET stored == StoredTestFiles(fs)
        last == CHOOSE i \in DOMAIN stored :
                   /\ SourceModule(stored[i].path) = module
                   /\ \A j \in DOMAIN stored :
                         SourceModule(stored[j].path) = module => j <= i
    IN  stored[last].test_functions

\* Mutant: the functions covered not capped at the functions of the module.
CoveredFuncsUncapped(test_count, functions) == test_count * 2

\* covered_funcs = min(test_count * 2, len(info['functions']))
CoveredFuncs(test_count, functions) == Min(test_count * 2, functions)

\* What one source module adds to tested_functions.
TestedIn(fs, info) ==
    IF HasTests(fs, info.path)
    THEN CoveredFuncs(TestCount(fs, info.path), info.functions)
    ELSE 0

RECURSIVE Sum(_)
Sum(numbers) ==
    IF numbers = <<>> THEN 0
    ELSE Sum(SubSeq(numbers, 1, Len(numbers) - 1)) + numbers[Len(numbers)]

CoverageWarning(marker, module) ==
    [message |-> {marker}, module |-> module, tip |-> "tip"]

\* The dict returned.  The lines a module's covered functions span are
\* covered_funcs / functions * lines, which is covered_funcs * function_lines;
\* the percentages are compared with their thresholds exactly, their rounded
\* values are left out of coverage_stats.
AnalyzeCodeCoverage(language, fs) ==
    IF language # "python"
    THEN [coverage_warnings |->
             <<CoverageWarning("only supported for Python", <<>>)>>,
          coverage_stats |-> EmptyDict]
    ELSE LET code_files == CodeFiles(fs)
             untested == SelectSeq(code_files, LAMBDA f : ~HasTests(fs, f.path))
             total_functions ==
                 Sum([i \in DOMAIN code_files |-> code_files[i].functions])
             tested_functions ==
                 Sum([i \in DOMAIN code_files |-> TestedIn(fs, code_files[i])])
             total_lines ==
                 Sum([i \in DOMAIN code_files |->
                         code_files[i].functions * code_files[i].function_lines])
             covered_lines_est ==
                 Sum([i \in DOMAIN code_files |->
                         TestedIn(fs, code_files[i]) * code_files[i].function_lines])
         IN  [coverage_warnings |->
                 [i \in 1..Len(untested) |->
                     CoverageWarning("No test file found", untested[i].path)]
                 \o (IF total_functions = 0
                        \/ tested_functions * 100 < 80 * total_functions
                     THEN <<CoverageWarning("Low function coverage", <<>>)>>
                     ELSE <<>>)
                 \o (IF total_lines = 0
                        \/ covered_lines_est * 100 < 70 * total_lines
                     THEN <<CoverageWarning("Estimated low line coverage", <<>>)>>
                     ELSE <<>>),
              coverage_stats |->
                 [total_modules |-> Len(code_files),
                  total_functions |-> total_functions,
                  tested_functions |-> tested_functions,
                  total_lines |-> total_lines,
                  estimated_covered_lines |-> covered_lines_est]]

MaxFiles == 3        \* the repository holds 0..MaxFiles python files
MaxFunctions == 3    \* a source file defines 0..MaxFunctions public functions
MaxTests == 2        \* a test file defines 0..MaxTests test functions

\* The paths of the source files, in the order rglob yields them.
SourcePathOrder ==
    << << <<"a">> >>, << <<"models">> >>, << <<"pkg">>, <<"a">> >> >>

SourcePaths == {SourcePathOrder[i] : i \in DOMAIN SourcePathOrder}

TestPaths ==
    { << <<"test_", "a">> >>, << <<"tests">>, <<"test_", "a">> >>,
      << <<"tests">>, <<"test_", "b">> >>,
      << <<"tests">>, <<"pkg">>, <<"test_", "a">> >> }

\* The python files of a repository.  With the repository as working
\* directory: source files of 50 characters with their functions and
\* classes, one shorter source file per path (it is skipped whatever it
\* holds), and test files with their test functions.  With another working
\* directory: a source file of 50 characters where that directory holds
\* nothing at its path, and a shorter one where it holds a module.
PythonFiles ==
    [path : SourcePaths, functions : 0..MaxFunctions, function_lines : {2},
     classes : {0, 1}, test_functions : {0}, long : {TRUE},
     at_cwd : {"itself"}]
    \cup [path : SourcePaths, functions : {MaxFunctions}, function_lines : {2},
          classes : {0}, test_functions : {0}, long : {FALSE},
          at_cwd : {"itself", "module"}]
    \cup [path : SourcePaths, functions : {MaxFunctions}, function_lines : {2},
          classes : {0}, test_functions : {0}, long : {TRUE},
          at_cwd : {"nothing"}]
    \cup [path : TestPaths, functions : {0}, function_lines : {2},
          classes : {0}, test_functions : 0..MaxTests, long : {TRUE},
          at_cwd : {"unopened"}]

\* The files found, no path twice: the source files in the order of their
\* paths, then the test files in any order (the two loops over rglob read
\* them apart, and only the order of the test files decides which entry of
\* test_files is stored last).
FileLists ==
    UNION {{fs \in [1..n -> PythonFiles] :
               \A i, j \in 1..n :
                  i < j =>
                     /\ fs[i].path # fs[j].path
                     /\ fs[j].path \in SourcePaths =>
                           /\ fs[i].path \in SourcePaths
                           /\ \E k, l \in DOMAIN SourcePathOrder :
                                 /\ k < l
                                 /\ SourcePathOrder[k] = fs[i].path
                                 /\ SourcePathOrder[l] = fs[j].path} :
              n \in 0..MaxFiles}

\* The working directory of the process is the repository or another
\* directory; the source files are opened in it.
InitCoverage ==
    /\ repo \in [language : Languages, cwd : {"repository", "elsewhere"}]
    /\ files \in FileLists
    /\ repo.language # "python" => Len(files) <= 1
    /\ \A i \in DOMAIN files :
          files[i].path \in SourcePaths =>
             (files[i].at_cwd = "itself" <=> repo.cwd = "repository")
    /\ coverage_results = EmptyDict
    /\ pc = "call"
    /\ analysis_results = EmptyDict
    /\ options = EmptyDict
    /\ now = RecentDays
    /\ health_score = NotRun.score
    /\ score_breakdown = NotRun.breakdown
    /\ score_category = NotRun.category
    /\ runs = <<>>
    /\ args = EmptyDict
    /\ stderr = <<>>
    /\ git = EmptyDict
    /\ git_history = EmptyDict
    /\ commit_lines = <<>>
    /\ unique_warnings = <<>>
    /\ import_graph = <<>>
    /\ cycle_warnings = <<>>
    /\ OutputIdle
    /\ ToolsIdle

\* coverage = analyze_code_coverage(repo_path)
AnalyzeCodeCoverageCall ==
    /\ pc = "call"
    /\ coverage_results' = AnalyzeCodeCoverage(repo.language, files)
    /\ pc' = "return"
    /\ UNCHANGED mainVars
    /\ UNCHANGED <<args, stderr, git, git_history, commit_lines,
                   unique_warnings, import_graph, cycle_warnings, files>>
    /\ UNCHANGED outputVars
    /\ UNCHANGED toolVars

NextCoverage == AnalyzeCodeCoverageCall

SpecCoverage == InitCoverage /\ [][NextCoverage]_vars

-----------------------------------------------------------------------------
(* analyzer.py: detect_primary_language *)

\* What rglob('*') yields: of each entry its suffix, a string, and whether it
\* is a regular file.

\* extensions: the buckets in insertion order.
extensions ==
    <<[lang |-> "python", exts |-> {<<".", "p", "y">>}],
      [lang |-> "javascript",
       exts |-> {<<".", "j", "s">>, <<".", "t", "s">>,
                 <<".", "j", "s", "x">>, <<".", "t", "s", "x">>}],
      [lang |-> "go", exts |-> {<<".", "g", "o">>}]>>

\* counts as the loop over rglob leaves it, in the order of extensions.
LanguageCounts(found) ==
    [b \in DOMAIN extensions |->
        Cardinality({i \in DOMAIN found :
                        /\ found[i].is_file
                        /\ Lower(found[i].suffix) \in extensions[b].exts})]

\* Mutant: of the keys with the highest count, the last.
MaxKeyLast(counts) ==
    CHOOSE b \in DOMAIN counts :
        /\ \A c \in DOMAIN counts : counts[c] <= counts[b]
        /\ \A c \in DOMAIN counts : c > b => counts[c] < counts[b]

\* max(counts, key=counts.get): of the keys with the highest count, the first
\* in iteration order.
MaxKey(counts) ==
    CHOOSE b \in DOMAIN counts :
        /\ \A c \in DOMAIN counts : counts[c] <= counts[b]
        /\ \A c \in DOMAIN counts : c < b => counts[c] < counts[b]

DetectPrimaryLanguage(found) ==
    LET counts == LanguageCounts(found)
    IN  IF \E b \in DOMAIN counts : counts[b] > 0
        THEN extensions[MaxKey(counts)].lang
        ELSE "unknown"

MaxEntries == 4      \* rglob yields 0..MaxEntries entries

\* The entries: files of every extension counted, in small and in capital
\* letters, files that are not counted, and a directory named like a module.
Entries ==
    [suffix : {<<".", "p", "y">>, <<".", "P", "y">>, <<".", "j", "s">>,
               <<".", "t", "s">>, <<".", "j", "s", "x">>,
               <<".", "t", "s", "x">>, <<".", "g", "o">>, <<".", "m", "d">>,
               <<>>},
     is_file : {TRUE}]
    \cup [suffix : {<<".", "p", "y">>}, is_file : {FALSE}]

InitLanguage ==
    /\ tree \in UNION {[1..n -> Entries] : n \in 0..MaxEntries}
    /\ primary_language = ""
    /\ sample = <<>>
    /\ entropy = EmptyDict
    /\ pc = "call"
    /\ MainIdle
    /\ UnitsIdle
    /\ OutputIdle

\* language = detect_primary_language(repo_path)
DetectPrimaryLanguageCall ==
    /\ pc = "call"
    /\ primary_language' = DetectPrimaryLanguage(tree)
    /\ pc' = "return"
    /\ UNCHANGED <<mainVars, unitVars, outputVars, tree, sample, entropy>>

NextLanguage == DetectPrimaryLanguageCall

SpecLanguage == InitLanguage /\ [][NextLanguage]_vars

-----------------------------------------------------------------------------
(* main.py: main on the options a caller hands it *)

\* The options get_repo_path_and_options is made to return by a caller that
\* replaces it: any of an output file, the quiet flag and the check flags, or
\* none of them.
CallerOptions ==
    {output @@ quiet @@ checks :
        output \in {EmptyDict, [output |-> "test.txt"]},
        quiet \in {EmptyDict, [quiet |-> TRUE], [quiet |-> FALSE]},
        checks \in {EmptyDict, [check_commits |-> TRUE], AllChecks}}

InitCall ==
    /\ options \in CallerOptions
    /\ repo \in MainRepositories
    /\ now = RecentDays
    /\ pc = "options"
    /\ analysis_results = EmptyDict
    /\ health_score = NotRun.score
    /\ score_breakdown = NotRun.breakdown
    /\ score_category = NotRun.category
    /\ runs = <<>>
    /\ UnitsIdle
    /\ OutputIdle
    /\ ToolsIdle

NextCall ==
    DefaultChecks \/ Announce \/ Analyze \/ Score \/ Categorize \/ Report

SpecCall == InitCall /\ [][NextCall]_vars

-----------------------------------------------------------------------------
(* analyzer.py: calculate_entropy *)

\* The entropy is a real number.  It is held exactly, as the rational number
\* 2 ^ (scale * entropy) = num / den: a term -p * log2(p) with p = count /
\* length is log2((length / count) ^ count) / length, so that subtracting
\* p * log2(p) from entropy multiplies num by length ^ count and den by
\* count ^ count, at scale = length.

RECURSIVE Pow(_, _)
Pow(base, exponent) ==
    IF exponent = 0 THEN 1 ELSE base * Pow(base, exponent - 1)

\* return 0
Zero == [scale |-> 1, num |-> 1, den |-> 1]

\* Mutant: every character counted once however often it occurs.
CharCountOnce(string) == [c \in {string[i] : i \in DOMAIN string} |-> 1]

\* char_count as the first loop leaves it.
CharCount(string) ==
    [c \in {string[i] : i \in DOMAIN string} |->
        Cardinality({i \in DOMAIN string : string[i] = c})]

\* entropy after the second loop has gone through the counts of chars.
RECURSIVE EntropyOver(_, _, _)
EntropyOver(char_count, length, chars) ==
    IF chars = {} THEN [scale |-> length, num |-> 1, den |-> 1]
    ELSE LET char == CHOOSE c \in chars : TRUE
             count == char_count[char]
             rest == EntropyOver(char_count, length, chars \ {char})
         IN  [scale |-> length,
              num |-> rest.num * Pow(length, count),
              den |-> rest.den * Pow(count, count)]

CalculateEntropy(string) ==
    IF string = <<>> THEN Zero
    ELSE LET char_count == CharCount(string)
         IN  EntropyOver(char_count, Len(string), DOMAIN char_count)

MaxLength == 6       \* a string has 0..MaxLength characters

Alphabet == {"a", "b", "c"}

InitEntropy ==
    /\ sample \in UNION {[1..n -> Alphabet] : n \in 0..MaxLength}
    /\ entropy = EmptyDict
    /\ tree = <<>>
    /\ primary_language = ""
    /\ pc = "call"
    /\ MainIdle
    /\ UnitsIdle
    /\ OutputIdle

\* entropy = calculate_entropy(value)
CalculateEntropyCall ==
    /\ pc = "call"
    /\ entropy' = CalculateEntropy(sample)
    /\ pc' = "return"
    /\ UNCHANGED <<mainVars, unitVars, outputVars, tree, primary_language,
                   sample>>

NextEntropy == CalculateEntropyCall

SpecEntropy == InitEntropy /\ [][NextEntropy]_vars

-----------------------------------------------------------------------------
(* What the properties read off the state *)

Scored == pc \in {"categorize", "report"}

\* The list a report of the analysis results carries (empty when absent).
Listed(key, list_key) == Get(Get(analysis_results, key, EmptyDict), list_key, <<>>)

Count(key, list_key) == Len(Listed(key, list_key))

\* Code-quality warnings whose message carries the marker.
Subtype(marker) ==
    Cardinality({i \in DOMAIN Listed("code_quality", "code_quality_warnings") :
        marker \in Listed("code_quality", "code_quality_warnings")[i].message})

Requested(key) == key \in DOMAIN options /\ options[key]

Capped(points, cap) == IF points > cap THEN cap ELSE points

PenaltyKeys ==
    {"commit_quality", "security", "language_specific", "code_quality", "coverage"}

\* The deduction table of the scoring rules, by breakdown key.
Deduction(key) ==
    CASE key = "commit_quality" ->
           IF Requested("check_commits")
           THEN Capped(10 * Count("history", "commits_quality_warnings"), 30) ELSE 0
      [] key = "security" ->
           IF Requested("check_security")
           THEN Capped(20 * Count("security", "secrets_warnings"), 50) ELSE 0
      [] key = "language_specific" ->
           IF Requested("check_language")
           THEN Capped(10 * Count("language", "language_warnings"), 30) ELSE 0
      [] key = "code_quality" ->
           IF Requested("check_code_quality")
           THEN Capped(5 * Subtype("Long function"), 20)
                + Capped(15 * Subtype("Circular dependency"), 30)
                + Capped(20 * Subtype("High-entropy"), 40)
           ELSE 0
      [] key = "coverage" ->
           IF Requested("check_coverage")
           THEN Capped(15 * Count("coverage", "coverage_warnings"), 45) ELSE 0

\* base_score plus the five penalty entries of the breakdown.
EntrySum ==
    score_breakdown.base_score + score_breakdown.commit_quality
    + score_breakdown.security + score_breakdown.language_specific
    + score_breakdown.code_quality + score_breakdown.coverage

Flag(name) == analysis_results.structure[name]

AllFlags ==
    Flag("has_readme") /\ Flag("has_license") /\ Flag("has_tests")
    /\ Flag("has_gitignore")

NoFlags ==
    ~Flag("has_readme") /\ ~Flag("has_license") /\ ~Flag("has_tests")
    /\ ~Flag("has_gitignore")

Commits == analysis_results.history.total_commits

CommitDate == analysis_results.history.most_recent_commit_date

\* A most-recent-commit date is present and not older than 180 days.
RecentCommit == CommitDate # NoDate /\ now - CommitDate <= 180

NoCheckRequested == \A k \in CheckKeys : ~Requested(k)

-----------------------------------------------------------------------------
(* Properties of calculate_health_score *)

\* C1: for every analysis result and every set of enabled checks the final
\* score returned, and the one recorded in the breakdown, lie in 0..100.
C1_ScoreWithinBounds ==
    Scored => /\ 0 <= health_score /\ health_score <= 100
              /\ 0 <= score_breakdown.final_score
              /\ score_breakdown.final_score <= 100

\* C1 witness: all checks requested and the penalties exceed the base score,
\* so the floor is what keeps the score at 0.
C1_FloorReached ==
    /\ Scored
    /\ \A k \in CheckKeys : Requested(k)
    /\ EntrySum < 0
    /\ health_score = 0

\* C2: the returned score is max(0, base_score + the five penalty entries),
\* equals breakdown['final_score'], and every penalty entry is the full capped
\* deduction as a non-positive delta, also when the deductions exceed the base.
C2_ScoreIsFlooredEntrySum ==
    Scored =>
        /\ health_score = (IF EntrySum < 0 THEN 0 ELSE EntrySum)
        /\ health_score = score_breakdown.final_score
        /\ \A k \in PenaltyKeys :
              score_breakdown[k] <= 0 /\ score_breakdown[k] = -Deduction(k)

\* C2 witness: a positive base score smaller than the deductions recorded.
C2_DeductionsExceedBase ==
    /\ Scored
    /\ score_breakdown.base_score > 0
    /\ EntrySum < 0
    /\ score_breakdown.security = -50
    /\ score_breakdown.final_score = 0

\* The additive rules, read off the analysis results.
RuleSum ==
    (IF Flag("has_readme") THEN 20 ELSE 0) + (IF Flag("has_license") THEN 15 ELSE 0)
    + (IF Flag("has_tests") THEN 25 ELSE 0) + (IF Flag("has_gitignore") THEN 15 ELSE 0)
    + (IF Commits >= 1 THEN 15 ELSE 0) + (IF RecentCommit THEN 10 ELSE 0)

BaseScoreIsRuleSum ==
    /\ score_breakdown.base_score = RuleSum
    /\ score_breakdown.structure + score_breakdown.history
         = score_breakdown.base_score
    /\ score_breakdown.base_score <= 100
    /\ (AllFlags /\ Commits >= 1 /\ RecentCommit)
         => score_breakdown.base_score = 100

C4_PerfectScoreWithoutDate ==
    (Scored /\ AllFlags /\ Commits >= 1 /\ NoCheckRequested)
        => health_score = 100 /\ score_breakdown.final_score = 100

\* The analysis results without the warnings of one penalty category.
Without(key) ==
    CASE key = "commit_quality" ->
           [analysis_results EXCEPT !.history =
               [k \in DOMAIN @ \ {"commits_quality_warnings"} |-> @[k]]]
      [] key = "security" ->
           [k \in DOMAIN analysis_results \ {"security"} |-> analysis_results[k]]
      [] key = "language_specific" ->
           [k \in DOMAIN analysis_results \ {"language"} |-> analysis_results[k]]
      [] key = "code_quality" ->
           [k \in DOMAIN analysis_results \ {"code_quality"} |-> analysis_results[k]]
      [] key = "coverage" ->
           [k \in DOMAIN analysis_results \ {"coverage"} |-> analysis_results[k]]

CheckOf(key) ==
    CASE key = "commit_quality" -> "check_commits"
      [] key = "security" -> "check_security"
      [] key = "language_specific" -> "check_language"
      [] key = "code_quality" -> "check_code_quality"
      [] key = "coverage" -> "check_coverage"

\* The warnings the analysis results carry for a penalty category.
Present(key) ==
    CASE key = "commit_quality" -> Count("history", "commits_quality_warnings")
      [] key = "security" -> Count("security", "secrets_warnings")
      [] key = "language_specific" -> Count("language", "language_warnings")
      [] key = "code_quality" -> Count("code_quality", "code_quality_warnings")
      [] key = "coverage" -> Count("coverage", "coverage_warnings")

\* C5: a penalty category whose check is not requested has breakdown entry 0,
\* and the final score is the one the same results give without that
\* category's warnings.
C5_DisabledCheckHasNoEffect ==
    Scored =>
        \A k \in PenaltyKeys :
            ~Requested(CheckOf(k)) =>
                /\ score_breakdown[k] = 0
                /\ health_score = CalculateHealthScore(Without(k), options, now)[1]

\* C5 witness: warnings are present for a check that was not requested, next
\* to a requested check whose penalty is applied, and the score is above 0.
C5_WarningsOfDisabledCheck ==
    /\ Scored
    /\ \E k \in PenaltyKeys : ~Requested(CheckOf(k)) /\ Present(k) > 0
    /\ \E k \in PenaltyKeys : Requested(CheckOf(k)) /\ score_breakdown[k] < 0
    /\ health_score > 0

\* C6: with the commit-quality check requested and n commit-quality warnings
\* the entry is -min(10*n, 30): 10 warnings give -30, and never below -30.
C6_CommitQualityPenalty ==
    (Scored /\ Requested("check_commits")) =>
        LET n == Count("history", "commits_quality_warnings")
        IN  /\ score_breakdown.commit_quality = -(IF 10 * n < 30 THEN 10 * n ELSE 30)
            /\ n = 10 => score_breakdown.commit_quality = -30
            /\ score_breakdown.commit_quality >= -30

\* C6 witness: exactly 10 commit-quality warnings, check requested, entry -30.
C6_TenWarnings ==
    /\ Scored
    /\ Requested("check_commits")
    /\ Count("history", "commits_quality_warnings") = 10
    /\ score_breakdown.commit_quality = -30

\* C7: with the code-quality check requested the entry is
\* -(min(5*L, 20) + min(15*C, 30) + min(20*E, 40)), never below -90.
C7_CodeQualityPenalty ==
    (Scored /\ Requested("check_code_quality")) =>
        LET L == Subtype("Long function")
            C == Subtype("Circular dependency")
            E == Subtype("High-entropy")
        IN  /\ score_breakdown.code_quality =
                 -((IF 5 * L < 20 THEN 5 * L ELSE 20)
                   + (IF 15 * C < 30 THEN 15 * C ELSE 30)
                   + (IF 20 * E < 40 THEN 20 * E ELSE 40))
            /\ score_breakdown.code_quality >= -90

\* C7 witness: more long functions and high-entropy strings than their caps
\* count, one circular dependency, which still costs exactly its 15 points.
C7_SurplusBesideOneCycle ==
    /\ Scored
    /\ Requested("check_code_quality")
    /\ Subtype("Long function") > 4
    /\ Subtype("Circular dependency") = 1
    /\ Subtype("High-entropy") > 2
    /\ score_breakdown.code_quality = -75

\* C8: with its check requested, security is -min(20*n, 50), language_specific
\* -min(10*n, 30) and coverage -min(15*n, 45), n the warnings of that category
\* alone.
C8_CountPenalties ==
    Scored =>
        /\ Requested("check_security") =>
             score_breakdown.security =
                -Capped(20 * Count("security", "secrets_warnings"), 50)
        /\ Requested("check_language") =>
             score_breakdown.language_specific =
                -Capped(10 * Count("language", "language_warnings"), 30)
        /\ Requested("check_coverage") =>
             score_breakdown.coverage =
                -Capped(15 * Count("coverage", "coverage_warnings"), 45)

\* C8 witness: security at its cap next to one language warning and one
\* coverage warning, each costing its own unit.
C8_CapBesideUnit ==
    /\ Scored
    /\ Requested("check_security") /\ Requested("check_language")
    /\ Requested("check_coverage")
    /\ Count("security", "secrets_warnings") > 2
    /\ Count("language", "language_warnings") = 1
    /\ Count("coverage", "coverage_warnings") = 1
    /\ score_breakdown.security = -50
    /\ score_breakdown.language_specific = -10
    /\ score_breakdown.coverage = -15

-----------------------------------------------------------------------------
(* Properties of get_score_category *)

Rank(category) ==
    CASE category = "Critical" -> 0
      [] category = "Poor" -> 1
      [] category = "Fair" -> 2
      [] category = "Good" -> 3
      [] category = "Excellent" -> 4

\* C9: every score in 0..100 gets exactly one category, Excellent from 90,
\* Good for 70..89, Fair for 50..69, Poor for 30..49, Critical below 30; 90,
\* 70, 50 and 30 belong to the higher category; a higher score never gets a
\* lower category.
C9_CategoryThresholds ==
    /\ (pc = "report" /\ health_score \in 0..100) =>
          /\ score_category \in {"Excellent", "Good", "Fair", "Poor", "Critical"}
          /\ score_category = "Excellent" <=> health_score >= 90
          /\ score_category = "Good" <=> (70 <= health_score /\ health_score <= 89)
          /\ score_category = "Fair" <=> (50 <= health_score /\ health_score <= 69)
          /\ score_category = "Poor" <=> (30 <= health_score /\ health_score <= 49)
          /\ score_category = "Critical" <=> health_score < 30
    /\ \A a, b \in 0..100 :
          a <= b => Rank(GetScoreCategory(a)) <= Rank(GetScoreCategory(b))

\* C9 witness: the boundary score 90 has been categorized, as Excellent.
C9_BoundaryNinety ==
    pc = "report" /\ health_score = 90 /\ score_category = "Excellent"

-----------------------------------------------------------------------------
(* Properties of repeated runs *)

\* C10 as stated: two runs on the unchanged repository with the same options
\* give the same final score and the same breakdown, whenever they take place.
C10_RunsAgree ==
    Len(runs) = 2 =>
        /\ runs[1].score = runs[2].score
        /\ runs[1].breakdown = runs[2].breakdown

-----------------------------------------------------------------------------
(* Properties of the command line and of main *)

\* The command line names no --check-* flag.
NoCheckFlag == \A k \in CheckKeys : ~args[k]

\* get_repo_path_and_options has returned.
OptionsReturned ==
    pc \in {"options", "announce", "analyze", "score", "categorize", "report",
           "done"}

\* C11 as stated: when the command line names no --check-* flag, the options
\* get_repo_path_and_options returns, and the options main analyzes and
\* scores with, have all five checks true.
C11_AllChecksByDefault ==
    (OptionsReturned /\ NoCheckFlag) => \A k \in CheckKeys : options[k]

\* The path named on the command line passes validate_repo_path.
ValidPath == Exists(args.repo_path) /\ IsDir(args.repo_path)
             /\ GitIsDir(args.repo_path)

\* Nothing of the analysis, the scoring or the report has happened.
NothingRun ==
    /\ options = EmptyDict
    /\ analysis_results = EmptyDict
    /\ health_score = NotRun.score
    /\ score_breakdown = NotRun.breakdown
    /\ score_category = NotRun.category
    /\ runs = <<>>

\* C15: once get_repo_path_and_options has run on an invalid path the process
\* has exited, with the error of the first failing check in the order exists,
\* is a directory, has a .git directory, and no analyzer, score computation or
\* report step has run or ever runs.
C15_InvalidPathIsFatal ==
    /\ (pc # "start" /\ ~ValidPath) =>
          /\ pc = "exit"
          /\ NothingRun
          /\ stderr =
               <<IF ~Exists(args.repo_path) THEN "Path does not exist"
                 ELSE IF ~IsDir(args.repo_path) THEN "Path is not a directory"
                 ELSE "Path is not a git repository">>
    /\ pc = "start" => NothingRun /\ stderr = <<>>
    /\ pc = "exit" => ~ValidPath

\* C15 witness: the process has exited on a directory whose .git is not a
\* directory, with every check requested on the command line.
C15_ExitOnDirectoryWithoutGitDir ==
    /\ pc = "exit"
    /\ args.repo_path = "worktree"
    /\ \A k \in CheckKeys : args[k]
    /\ stderr = <<"Path is not a git repository">>

-----------------------------------------------------------------------------
(* Properties of analyze_repository *)

Analyzed == pc \in {"score", "categorize", "report", "done"}

\* The check option that requests an optional report.
CheckOfReport(key) ==
    CASE key = "security" -> "check_security"
      [] key = "language" -> "check_language"
      [] key = "code_quality" -> "check_code_quality"
      [] key = "coverage" -> "check_coverage"

OptionalReports == {"security", "language", "code_quality", "coverage"}

\* C12: the result of analyze_repository always holds the structure and
\* history reports, holds each of security, language, code_quality and
\* coverage exactly when its check option is enabled, and holds nothing else.
C12_ReportsAsRequested ==
    Analyzed =>
        /\ {"structure", "history"} \subseteq DOMAIN analysis_results
        /\ \A k \in OptionalReports :
              k \in DOMAIN analysis_results <=> Requested(CheckOfReport(k))
        /\ DOMAIN analysis_results \subseteq {"structure", "history"} \cup OptionalReports

\* C12 witness: an analysis with the security and coverage reports requested
\* and the language and code-quality reports not requested.
C12_SomeRequested ==
    /\ Analyzed
    /\ Requested("check_security") /\ Requested("check_coverage")
    /\ ~Requested("check_language") /\ ~Requested("check_code_quality")
    /\ DOMAIN analysis_results = {"structure", "history", "security", "coverage"}

-----------------------------------------------------------------------------
(* Properties of analyze_commit_quality *)

\* The maximal runs of word characters of a text.
WordsOf(text) ==
    {SubSeq(text, i, j) : <<i, j>> \in
        {r \in (DOMAIN text) \X (DOMAIN text) :
            /\ r[1] <= r[2]
            /\ \A k \in r[1]..r[2] : IsWordChar(text[k])
            /\ r[1] = 1 \/ ~IsWordChar(text[r[1] - 1])
            /\ r[2] = Len(text) \/ ~IsWordChar(text[r[2] + 1])}}

Keywords == {bad_keywords[i] : i \in DOMAIN bad_keywords}

\* The lines given that are not blank and have a first space, hence a
\* subject.
LinesWithSubject ==
    {i \in DOMAIN commit_lines :
        \E k, l \in DOMAIN commit_lines[i] :
            commit_lines[i][k] = " " /\ commit_lines[i][l] # " "}

\* The text after the first space of a line.
SubjectOf(line) ==
    LET first == CHOOSE k \in DOMAIN line :
                    line[k] = " " /\ \A j \in 1..(k - 1) : line[j] # " "
    IN  [k \in 1..(Len(line) - first) |-> line[first + k]]

\* How many of the returned warnings carry the message.
Returned(prefix, line, keyword) ==
    Cardinality({w \in DOMAIN unique_warnings :
        unique_warnings[w].message =
            [text |-> prefix, line |-> Strip(line), contains |-> keyword]})

IsShort(subject) ==
    /\ Len(subject) < 10
    /\ ~(Len(subject) >= 5 /\ Lower(SubSeq(subject, 1, 5)) = <<"m", "e", "r", "g", "e">>)

abc1234_wip == <<"a", "b", "c", "1", "2", "3", "4", " ", "w", "i", "p">>

\* C16: for every line with a subject, each keyword that is a whole word of
\* the case-folded subject yields one bad-keyword warning and no other keyword
\* does, and the line yields one short-message warning exactly when the
\* subject is shorter than 10 characters and does not start with merge in any
\* case, whatever the other rule and the other lines yield; so 'abc1234 wip'
\* yields both.
C16_RulesIndependentPerLine ==
    pc = "return" =>
        /\ \A i \in LinesWithSubject :
              LET line == commit_lines[i]
                  subject == SubjectOf(line)
              IN  /\ \A k \in Keywords :
                        Returned("Bad commit message", line, k) =
                            (IF k \in WordsOf(Lower(subject)) THEN 1 ELSE 0)
                  /\ Returned("Very short commit message", line, <<>>) =
                        (IF IsShort(subject) THEN 1 ELSE 0)
        /\ (\E i \in DOMAIN commit_lines : commit_lines[i] = abc1234_wip) =>
              /\ Returned("Bad commit message", abc1234_wip, <<"w", "i", "p">>) = 1
              /\ Returned("Very short commit message", abc1234_wip, <<>>) = 1

\* C16 witness: 'abc1234 wip' given after a merge line, with both of its
\* warnings and none for the merge line returned.
C16_WipAfterMerge ==
    /\ pc = "return"
    /\ commit_lines =
         << <<"d", "e", "f", "1", "2", "3", "4", " ", "M", "e", "r", "g", "e">>,
            abc1234_wip >>
    /\ Len(unique_warnings) = 2

\* A line without a subject: an empty or blank line, a line without a space,
\* and a line that ends with its first space.
NoSubject(line) ==
    \/ \A k \in DOMAIN line : line[k] = " "
    \/ \A k \in DOMAIN line : line[k] # " "
    \/ Len(SplitOnce(line)) = 2 /\ SplitOnce(line)[2] = <<>>

\* C28 as stated: when none of the lines given has a subject, no warning of
\* any kind is returned.
C28_NoSubjectNoWarning ==
    (pc = "return" /\ \A i \in DOMAIN commit_lines : NoSubject(commit_lines[i]))
        => unique_warnings = <<>>

-----------------------------------------------------------------------------
(* Properties of analyze_git_history *)

\* One of the git calls that were made raised.
SomeCallFailed ==
    \/ git.count.raised
    \/ ~git.count.raised /\ git.count.parses /\ git.date.raised
    \/ /\ ~git.count.raised /\ git.count.parses
       /\ ~git.date.raised /\ (git.date.blank \/ git.date.parses)
       /\ Requested("check_commits")
       /\ git.log.raised

\* C13 as stated: when the commit-count call, the most-recent-date call or the
\* commit-log call fails, the history returned is total_commits 0, no
\* most-recent-commit date and no commit-quality warnings.
C13_FailureGivesNoHistory ==
    (pc = "return" /\ SomeCallFailed) =>
        /\ git_history.total_commits = 0
        /\ git_history.most_recent_commit_date = NoDate
        /\ git_history.commits_quality_warnings = <<>>

\* C14 as stated: whatever the git calls print or raise, a history returned
\* with total_commits 0 has no most-recent-commit date.
C14_NoCommitsNoDate ==
    (pc = "return" /\ git_history.total_commits = 0) =>
        git_history.most_recent_commit_date = NoDate

\* What the date call is when git prints no timestamp.
NoTimestamp ==
    [raised |-> FALSE, blank |-> TRUE, parses |-> FALSE, value |-> NoDate]

\* The timestamp git printed is one strptime rejects, after a count that
\* parsed.
DateRejected ==
    /\ ~git.count.raised /\ git.count.parses
    /\ ~git.date.raised /\ ~git.date.blank /\ ~git.date.parses

\* C26 as stated: when strptime rejects the timestamp, analyze_git_history
\* returns what it returns when git prints no timestamp: the count, no date,
\* and the commit-quality warnings of the log when the commit check is on.
C26_RejectedDateIsNoTimestamp ==
    (pc = "return" /\ DateRejected) =>
        /\ git_history.total_commits = git.count.value
        /\ git_history.most_recent_commit_date = NoDate
        /\ git_history =
              AnalyzeGitHistoryCalls([git EXCEPT !.date = NoTimestamp], options)

-----------------------------------------------------------------------------
(* Properties of check_circular_dependencies *)

\* The import edges of the graph.
Edges ==
    {<<import_graph[i].module, import_graph[i].imports[j]>> :
        <<i, j>> \in {p \in (DOMAIN import_graph) \X (1..MaxImports) :
                         p[2] <= Len(import_graph[p[1]].imports)}}

\* The pairs joined by a path of at least one edge.
RECURSIVE PathsWithin(_, _)
PathsWithin(R, n) ==
    IF n = 0 THEN R
    ELSE PathsWithin(R \cup {<<p[1], q[2]>> : <<p, q>> \in
                               {pq \in R \X Edges : pq[1][2] = pq[2][1]}},
                     n - 1)

Reaches == PathsWithin(Edges, Cardinality(Names))

Acyclic == LET reaches == Reaches IN \A n \in Names : <<n, n>> \notin reaches

CyclesChecked == pc = "return" /\ repo.language = "python"

\* Two modules import each other, and import nothing else that imports.
MutualPair(x, y) ==
    /\ x # y
    /\ {import_graph[i].module : i \in DOMAIN import_graph} = {x, y}
    /\ <<x, y>> \in Edges /\ <<y, x>> \in Edges
    /\ Edges \ {<<x, y>>, <<y, x>>} \subseteq {x, y} \X (Names \ Importers)

\* C17: for two modules that import each other exactly one warning is
\* returned and its cycle names both modules and nothing else, whichever
\* module is the first key of the graph and wherever the import stands in its
\* module's import list.
C17_MutualImportOneWarning ==
    CyclesChecked =>
        \A x, y \in Importers :
            MutualPair(x, y) =>
                /\ Len(cycle_warnings) = 1
                /\ "Circular dependency" \in cycle_warnings[1].message
                /\ {cycle_warnings[1].cycle[i] :
                       i \in DOMAIN cycle_warnings[1].cycle} = {x, y}

\* C17 witness: b is the first key, imports d before a, a imports b, and the
\* cycle returned is b -> a -> b.
C17_StartFromSecondModule ==
    /\ CyclesChecked
    /\ import_graph = <<[module |-> "b", imports |-> <<"d", "a">>],
                        [module |-> "a", imports |-> <<"b">>]>>
    /\ Len(cycle_warnings) = 1
    /\ cycle_warnings[1].cycle = <<"b", "a", "b">>

\* C18: for an acyclic import graph no warning is returned, whatever the
\* order of the modules and of each module's imports.
C18_AcyclicNoWarning ==
    (CyclesChecked /\ Acyclic) => cycle_warnings = <<>>

\* C18 witness: a diamond, a imports b and c, both import d, and c also
\* stands after b in the traversal; nothing is returned.
C18_Diamond ==
    /\ CyclesChecked
    /\ import_graph = <<[module |-> "a", imports |-> <<"b", "c">>],
                        [module |-> "b", imports |-> <<"c", "d">>],
                        [module |-> "c", imports |-> <<"d">>]>>
    /\ cycle_warnings = <<>>

\* The start nodes up to the first one from which a cycle can be reached.
StartsUntilCycle ==
    LET reaches == Reaches
        cyclic == {k \in DOMAIN import_graph :
                      \E n \in Names :
                          /\ <<n, n>> \in reaches
                          /\ n = import_graph[k].module
                             \/ <<import_graph[k].module, n>> \in reaches}
    IN  IF cyclic = {} THEN DOMAIN import_graph
        ELSE 1..(CHOOSE k \in cyclic : \A j \in cyclic : k <= j)

\* C19: at most one warning is returned for any import graph, and when one is
\* returned the traversal has visited nothing but the start nodes up to the
\* first one that leads to a cycle and what they reach.
C19_AtMostOneWarning ==
    pc = "return" =>
        /\ Len(cycle_warnings) <= 1
        /\ repo.language = "python" =>
             LET final == Traverse(import_graph, 1, TraversalStart)
                 starts == {import_graph[k].module : k \in StartsUntilCycle}
                 reaches == Reaches
             IN  /\ final.warnings = cycle_warnings
                 /\ final.visited \subseteq
                       starts \cup {n \in Names : \E m \in starts : <<m, n>> \in reaches}
                 /\ final.cycle_found <=> Len(cycle_warnings) = 1

\* C19 witness: three cycles, a with itself, b with c and c with itself, the
\* first key being a: one warning, and b and c never visited.
C19_ThreeCyclesOneWarning ==
    /\ CyclesChecked
    /\ import_graph = <<[module |-> "a", imports |-> <<"a">>],
                        [module |-> "b", imports |-> <<"c">>],
                        [module |-> "c", imports |-> <<"c", "b">>]>>
    /\ Len(cycle_warnings) = 1
    /\ Traverse(import_graph, 1, TraversalStart).visited = {"a"}

\* C25: the cycle of a warning starts and ends with the same module, each of
\* its modules imports the next, and it is the traversal path at the moment
\* of detection from the first occurrence of the repeated module to its end,
\* followed by that module; no other module stands twice in it.
C25_ReportedCycleIsGenuine ==
    CyclesChecked =>
        \A w \in DOMAIN cycle_warnings :
            LET cycle == cycle_warnings[w].cycle
                repeated == cycle[Len(cycle)]
                path == Traverse(import_graph, 1, TraversalStart).path
            IN  /\ Len(cycle) >= 2
                /\ cycle[1] = repeated
                /\ \A i \in 1..(Len(cycle) - 1) :
                      <<cycle[i], cycle[i + 1]>> \in Edges
                /\ \A i, j \in 1..(Len(cycle) - 1) :
                      i # j => cycle[i] # cycle[j]
                /\ \E first \in DOMAIN path :
                      /\ path[first] = repeated
                      /\ \A j \in 1..(first - 1) : path[j] # repeated
                      /\ cycle = SubSeq(path, first, Len(path)) \o <<repeated>>

\* C25 witness: a imports b, b and c import each other; the traversal goes
\* from a to b to c and the cycle returned is b -> c -> b, without a.
C25_CycleBehindStartNode ==
    /\ CyclesChecked
    /\ import_graph = <<[module |-> "a", imports |-> <<"b">>],
                        [module |-> "b", imports |-> <<"c">>],
                        [module |-> "c", imports |-> <<"d", "b">>]>>
    /\ Len(cycle_warnings) = 1
    /\ cycle_warnings[1].cycle = <<"b", "c", "b">>
    /\ Traverse(import_graph, 1, TraversalStart).path = <<"a", "b", "c">>

\* C29: whenever a module of the import graph reaches itself along import
\* edges, a module that imports itself included, exactly one warning is
\* returned, whatever the order of the modules and of each module's imports.
C29_EveryCyclicGraphWarned ==
    (CyclesChecked /\ ~Acyclic) =>
        /\ Len(cycle_warnings) = 1
        /\ "Circular dependency" \in cycle_warnings[1].message

\* C29 witness: the first module is on no cycle and the cycle of the other
\* two is entered through the second import of the last module.
C29_CycleAfterAcyclicStart ==
    /\ CyclesChecked
    /\ import_graph = <<[module |-> "a", imports |-> <<"d">>],
                        [module |-> "c", imports |-> <<"a", "b">>],
                        [module |-> "b", imports |-> <<"d", "c">>]>>
    /\ Len(cycle_warnings) = 1
    /\ cycle_warnings[1].cycle = <<"c", "b", "c">>

-----------------------------------------------------------------------------
(* Properties of analyze_code_coverage *)

CoverageEstimated == pc = "return" /\ repo.language = "python"

\* The files taken as source modules.
SourceModules ==
    {i \in DOMAIN files :
        /\ ~ShouldSkipForCoverage(files[i])
        /\ files[i].functions > 0 \/ files[i].classes > 0}

\* The test files with test functions whose name leads to the module of a
\* source file: tests/ in front and every test_ removed.
MatchingTests(i) ==
    {t \in DOMAIN files :
        /\ files[t].path[Len(files[t].path)][1] = "test_"
        /\ files[t].test_functions > 0
        /\ SourceModule(files[t].path) = files[i].path}

\* min(2 * M, N) for the matching test file, the one read last if several.
ExpectedCovered(i) ==
    IF MatchingTests(i) = {} THEN 0
    ELSE LET t == CHOOSE t \in MatchingTests(i) : \A u \in MatchingTests(i) : u <= t
             M == files[t].test_functions
             N == files[i].functions
         IN  IF 2 * M < N THEN 2 * M ELSE N

NoTestFileWarnings(i) ==
    {w \in DOMAIN coverage_results.coverage_warnings :
        /\ "No test file found" \in coverage_results.coverage_warnings[w].message
        /\ coverage_results.coverage_warnings[w].module = files[i].path}

\* C20: tested_functions is the sum over the source modules of min(2 * M, N)
\* for a module with N counted functions and a matching test module with M
\* test functions and of 0 for a module without one, and every source module
\* without a matching test module has exactly one 'No test file found'
\* warning.
C20_CoveredIsMinTwiceTests ==
    CoverageEstimated =>
        /\ coverage_results.coverage_stats.tested_functions =
              Sum([i \in DOMAIN files |->
                      IF i \in SourceModules THEN ExpectedCovered(i) ELSE 0])
        /\ \A i \in SourceModules :
              MatchingTests(i) = {} => Cardinality(NoTestFileWarnings(i)) = 1

\* C20 witness: module a with 3 functions and one test function in
\* tests/test_a.py, module pkg.a with 2 functions and no test file: 2 tested
\* functions and one warning, for pkg.a.
C20_OneTestedOneUntested ==
    /\ CoverageEstimated
    /\ Len(files) = 3
    /\ files[1].path = << <<"a">> >> /\ files[1].functions = 3
    /\ files[2].path = << <<"pkg">>, <<"a">> >> /\ files[2].functions = 2
    /\ files[3].path = << <<"tests">>, <<"test_", "a">> >>
    /\ files[3].test_functions = 1
    /\ SourceModules = {1, 2}
    /\ coverage_results.coverage_stats.tested_functions = 2
    /\ Cardinality(NoTestFileWarnings(1)) = 0
    /\ Cardinality(NoTestFileWarnings(2)) = 1

\* A source module as stated: no test file, no entry of the exclusion list in
\* its path, at least 50 characters, and a function or class.
SourceModuleAsStated(file) ==
    /\ ~IsTestFile(file)
    /\ ~MatchesSkipPattern(file.path)
    /\ file.long
    /\ file.functions > 0 \/ file.classes > 0

\* C27 as stated: a python file is taken as a source module exactly when it
\* is a source module as stated, which its path and its content decide,
\* whatever the working directory of the process and the files outside the
\* repository.
C27_SourceModuleByPathAndContent ==
    CoverageEstimated =>
        /\ \A i \in DOMAIN files :
              i \in SourceModules <=> SourceModuleAsStated(files[i])
        /\ coverage_results.coverage_stats.total_modules =
              Cardinality({i \in DOMAIN files : SourceModuleAsStated(files[i])})

\* C30: for a repository whose primary language is not python
\* analyze_code_coverage returns one warning, 'only supported for Python',
\* and empty coverage_stats, and calculate_health_score with the coverage
\* check requested records -15 as the coverage entry of the breakdown.
C30_NonPythonCoverageEntry ==
    (pc = "return" /\ repo.language # "python") =>
        /\ Len(coverage_results.coverage_warnings) = 1
        /\ "only supported for Python"
              \in coverage_results.coverage_warnings[1].message
        /\ coverage_results.coverage_stats = EmptyDict
        /\ \A opts \in {o \in OptionDicts : Get(o, "check_coverage", FALSE)} :
              CalculateHealthScore("coverage" :> coverage_results, opts, now)[2]
                 .coverage = -15

\* C30 witness: a go repository that holds one python source file.
C30_GoRepositoryWithPythonFile ==
    /\ pc = "return"
    /\ repo.language = "go"
    /\ Len(files) = 1
    /\ SourceModuleAsStated(files[1])
    /\ Len(coverage_results.coverage_warnings) = 1
    /\ coverage_results.coverage_stats = EmptyDict

-----------------------------------------------------------------------------
(* detect_primary_language *)

LanguageDetected == pc = "return" /\ primary_language # ""

\* The regular files of the tree whose suffix, in small letters, is one of a
\* bucket's.
FilesOf(b) ==
    {i \in DOMAIN tree :
        tree[i].is_file /\ Lower(tree[i].suffix) \in extensions[b].exts}

FileCount(b) == Cardinality(FilesOf(b))

BucketOf(lang) == CHOOSE b \in DOMAIN extensions : extensions[b].lang = lang

\* C21: detect_primary_language returns 'unknown' exactly when no file falls
\* in any of the three buckets; otherwise it returns a bucket whose file count
\* is the highest, and of the buckets with that count the first in the order
\* python, javascript, go.
C21_HighestCountFirstInOrder ==
    LanguageDetected =>
        /\ primary_language = "unknown" <=>
              \A b \in DOMAIN extensions : FileCount(b) = 0
        /\ primary_language # "unknown" =>
              /\ primary_language \in {"python", "javascript", "go"}
              /\ \A b \in DOMAIN extensions :
                    FileCount(b) <= FileCount(BucketOf(primary_language))
              /\ \A b \in DOMAIN extensions :
                    FileCount(b) = FileCount(BucketOf(primary_language)) =>
                       BucketOf(primary_language) <= b
        /\ extensions[1].lang = "python"
        /\ extensions[2].lang = "javascript"
        /\ extensions[3].lang = "go"

\* C21 witness: javascript and go tie with two files each, a .ts and a .jsx
\* file among them, and javascript is returned.
C21_TieOfJavascriptAndGo ==
    /\ LanguageDetected
    /\ FileCount(1) = 0
    /\ \E i, j \in FilesOf(2) : Len(tree[i].suffix) < Len(tree[j].suffix)
    /\ FileCount(2) = 2
    /\ FileCount(3) = 2
    /\ primary_language = "javascript"

-----------------------------------------------------------------------------
(* What main puts out *)

\* The banner, the configuration list and the progress bar of main.
BannerLines ==
    {"Git Repo Health Checker", "Repository", "CONFIGURATION",
     "ANALYSIS IN PROGRESS", "Progress"}
    \cup {ConfigurationLines[n].line : n \in DOMAIN ConfigurationLines}

\* The progress messages of analyze_repository.
ProgressMessages ==
    {"Analyzing repository structure...", "Analyzing git history...",
     "Scanning for security issues...",
     "Analyzing language-specific requirements...",
     "Analyzing code quality...", "Analyzing code coverage..."}

Printed(lines) == \E i \in DOMAIN stdout : stdout[i] \in lines

\* C22 as stated: in a run of main with the quiet option set, neither the
\* banner, the configuration list and the progress bar of main nor a progress
\* message of analyze_repository is printed.
C22_QuietRunPrintsNoProgress ==
    (OptionsReturned /\ options.quiet) =>
        ~Printed(BannerLines) /\ ~Printed(ProgressMessages)

\* C23 as stated: main, handed options that hold an output file and nothing
\* else, does not raise, and when it is done it has opened the output file
\* exactly once.
C23_OutputOnlyOptionsComplete ==
    DOMAIN options = {"output"} =>
        /\ pc # "exit"
        /\ stderr = <<>>
        /\ pc = "done" => opened = <<options.output>>

-----------------------------------------------------------------------------
(* calculate_entropy *)

EntropyReturned == pc = "return" /\ entropy # EmptyDict

\* The characters that occur in the string.
Distinct == {sample[i] : i \in DOMAIN sample}

Occurrences(c) == Cardinality({i \in DOMAIN sample : sample[i] = c})

\* Every character of the string occurs as often as every other.
Uniform == \A c, d \in Distinct : Occurrences(c) = Occurrences(d)

\* entropy = log2(k), that is 2 ^ (scale * entropy) = k ^ scale.
EntropyIsLog2(k) == entropy.num = entropy.den * Pow(k, entropy.scale)

\* entropy <= log2(k)
EntropyAtMostLog2(k) == entropy.num <= entropy.den * Pow(k, entropy.scale)

=============================================================================
